---- MODULE Spec2Model ----
(***************************************************************************)
(* Plannotator: version history store, plan review server and plan diff    *)
(* engine.  Texts are sequences of one-character strings.  An optional     *)
(* value (string | null) is a sequence of length 0 (null) or 1.            *)
(***************************************************************************)
EXTENDS Integers, Sequences, FiniteSets, TLC

\* ------------------------------------------------------------------ bounds
MaxDay == 2
MaxCalls == 3
MaxLines == 2

\* ------------------------------------------------------- character classes
None == << >>
Some(x) == << x >>

DigitChars == << "0", "1", "2", "3", "4", "5", "6", "7", "8", "9" >>
Digits == { DigitChars[i] : i \in 1..10 }
LowerLetters == { "a", "b", "c", "d", "e", "l", "m", "n", "p", "x", "y" }
SpaceChars == { " ", "\n", "\t" }

IsSpace(c) == c \in SpaceChars

DigitVal(c) == CHOOSE i \in 0..9 : DigitChars[i + 1] = c

toLowerCase(c) ==
  CASE c = "A" -> "a"
    [] c = "B" -> "b"
    [] c = "C" -> "c"
    [] c = "D" -> "d"
    [] OTHER -> c

\* ------------------------------------------------------------ string tools
RECURSIVE trimStart(_)
trimStart(s) ==
  IF s # << >> /\ IsSpace(Head(s)) THEN trimStart(Tail(s)) ELSE s

RECURSIVE trimEnd(_)
trimEnd(s) ==
  IF s # << >> /\ IsSpace(s[Len(s)]) THEN trimEnd(SubSeq(s, 1, Len(s) - 1)) ELSE s

trim(s) == trimEnd(trimStart(s))

slice(s, n) == IF Len(s) <= n THEN s ELSE SubSeq(s, 1, n)

RECURSIVE NumToStr(_)
NumToStr(n) ==
  IF n < 10 THEN << DigitChars[n + 1] >>
  ELSE NumToStr(n \div 10) \o << DigitChars[(n % 10) + 1] >>

RECURSIVE padStart(_, _, _)
padStart(s, width, c) == IF Len(s) >= width THEN s ELSE padStart(<< c >> \o s, width, c)

RECURSIVE DigitsValue(_, _)
DigitsValue(s, acc) ==
  IF s = << >> THEN acc ELSE DigitsValue(Tail(s), acc * 10 + DigitVal(Head(s)))

RECURSIVE DigitPrefix(_)
DigitPrefix(s) ==
  IF s # << >> /\ Head(s) \in Digits THEN << Head(s) >> \o DigitPrefix(Tail(s)) ELSE << >>

\* parseInt(s, 10): skip leading white space, an optional sign, then the
\* longest prefix of decimal digits; NaN (None) when that prefix is empty.
parseInt(s) ==
  LET t == trimStart(s)
      neg == t # << >> /\ Head(t) = "-"
      u == IF t # << >> /\ Head(t) \in { "-", "+" } THEN Tail(t) ELSE t
      ds == DigitPrefix(u)
  IN IF ds = << >> THEN None
     ELSE Some(IF neg THEN 0 - DigitsValue(ds, 0) ELSE DigitsValue(ds, 0))

\* --------------------------------------------------------------- sanitizeTag
RECURSIVE ReplaceSpaceRuns(_)
ReplaceSpaceRuns(s) ==
  IF s = << >> THEN << >>
  ELSE IF IsSpace(Head(s)) \/ Head(s) = "_"
       THEN IF Len(s) > 1 /\ (IsSpace(s[2]) \/ s[2] = "_")
            THEN ReplaceSpaceRuns(Tail(s))
            ELSE << "-" >> \o ReplaceSpaceRuns(Tail(s))
       ELSE << Head(s) >> \o ReplaceSpaceRuns(Tail(s))

RECURSIVE CollapseHyphens(_)
CollapseHyphens(s) ==
  IF s = << >> THEN << >>
  ELSE IF Head(s) = "-" /\ Len(s) > 1 /\ s[2] = "-"
       THEN CollapseHyphens(Tail(s))
       ELSE << Head(s) >> \o CollapseHyphens(Tail(s))

StripEdgeHyphen(s) ==
  LET a == IF s # << >> /\ Head(s) = "-" THEN Tail(s) ELSE s
  IN IF a # << >> /\ a[Len(a)] = "-" THEN SubSeq(a, 1, Len(a) - 1) ELSE a

TagMaxLen == 30
TagMinLen == 2

sanitizeTag_NoCollapse(name) ==
  IF name = << >> THEN None
  ELSE LET lower == [i \in 1..Len(name) |-> toLowerCase(name[i])]
           dashed == ReplaceSpaceRuns(trim(lower))
           kept == SelectSeq(dashed, LAMBDA c : c \in LowerLetters \cup Digits \cup { "-" })
           sanitized == slice(StripEdgeHyphen(kept), TagMaxLen)
       IN IF Len(sanitized) >= TagMinLen THEN Some(sanitized) ELSE None

sanitizeTag(name) ==
  IF name = << >> THEN None
  ELSE LET lower == [i \in 1..Len(name) |-> toLowerCase(name[i])]
           dashed == ReplaceSpaceRuns(trim(lower))
           kept == SelectSeq(dashed, LAMBDA c : c \in LowerLetters \cup Digits \cup { "-" })
           sanitized == slice(StripEdgeHyphen(CollapseHyphens(kept)), TagMaxLen)
       IN IF Len(sanitized) >= TagMinLen THEN Some(sanitized) ELSE None

\* ------------------------------------------------------ extractFirstHeading
\* /^#\s+(.+)$/m tried at position i: "#" at a line start, then a run of
\* white space (greedy, may cross line ends, backtracks), then the rest of
\* the line, which must be non-empty.
LineEnd(s, k) ==
  IF \E j \in k..Len(s) : s[j] = "\n"
  THEN (CHOOSE j \in k..Len(s) : s[j] = "\n" /\ \A m \in k..(j - 1) : s[m] # "\n") - 1
  ELSE Len(s)

HeadingMatchAt(s, i) ==
  LET ok(j) == /\ j > i /\ j < Len(s)
               /\ \A m \in (i + 1)..j : IsSpace(s[m])
               /\ s[j + 1] # "\n"
      js == { j \in (i + 1)..Len(s) : ok(j) }
  IN IF /\ s[i] = "#"
        /\ (i = 1 \/ s[i - 1] = "\n")
        /\ js # {}
     THEN LET j == CHOOSE x \in js : \A y \in js : y <= x
          IN Some(SubSeq(s, j + 1, LineEnd(s, j + 1)))
     ELSE None

extractFirstHeading(markdown) ==
  LET hits == { i \in 1..Len(markdown) : HeadingMatchAt(markdown, i) # None }
  IN IF hits = {} THEN None
     ELSE LET i == CHOOSE x \in hits : \A y \in hits : x <= y
          IN Some(trim(HeadingMatchAt(markdown, i)[1]))

\* new Date().toISOString().split("T")[0] on day number d of the run
IsoDate(d) == << "2", "0", "2", "6", "-", "0", "1", "-", "0", DigitChars[d + 1] >>

generateSlug(plan, day) ==
  LET heading == extractFirstHeading(plan)
      slug == IF heading # None /\ heading[1] # << >> THEN sanitizeTag(heading[1]) ELSE None
  IN IF slug # None THEN slug[1] \o << "-" >> \o IsoDate(day)
     ELSE << "p", "l", "a", "n", "-" >> \o IsoDate(day)

\* basename of the working tree the extension runs in
CwdBaseName == << "A", "p", "p" >>

detectProjectName ==
  LET t == sanitizeTag(CwdBaseName)
  IN IF t # None THEN t[1] ELSE << "_", "u", "n", "k", "n", "o", "w", "n" >>

\* ------------------------------------------------------------ plan contents
PlanA == << "#", " ", "A", "b", "\n", "x" >>
PlanA2 == << "#", " ", "A", "b", "\n", "y" >>
PlanB == << "#", " ", "c", "_", "d", "\n", "x" >>
PlanNoHeading == << "x", "\n" >>
Plans == { PlanA, PlanA2, PlanB }

\* --------------------------------------------------------- history on disk
UnknownProject == << "_", "u", "n", "k", "n", "o", "w", "n" >>
Slugs == { generateSlug(pl, d) : pl \in Plans \cup { PlanNoHeading }, d \in 1..MaxDay }
DirKeys == { detectProjectName, UnknownProject } \X Slugs

\* directories a caller of the storage API passes as (project, slug)
ApiDirs == { << detectProjectName, generateSlug(PlanA, 1) >>,
             << UnknownProject, generateSlug(PlanB, 1) >> }

\* contents a caller of the storage API saves
ApiPlans == Plans

Procs == { 1, 2 }

VARIABLES
  fs,       \* fs[d]: does ~/.plannotator/history/{project}/{slug} exist, and the files in it
  today,    \* the day the clock shows
  calls,    \* number of saveToHistory calls made so far (also the logical mtime clock)
  active,   \* the processes that write to the history
  proc,     \* proc[p]: position and locals of process p
  out,      \* result of the last read-only call
  resp,     \* response of the last HTTP request
  lastSave, \* the last saveToHistory call that returned: its directory, plan and result
  oldText,  \* the previous plan version handed to computePlanDiff
  newText,  \* the current plan handed to computePlanDiff
  changes,  \* what diffLines returned for them
  diff,     \* the last PlanDiffResult: blocks and stats
  phase,          \* Pi extension: idle, planning or executing
  planFilePath,   \* Pi extension: the plan file path
  checklistItems, \* Pi extension: the parsed checklist, one completed flag per step
  activeTools,    \* the tools Pi offers the agent
  pi,             \* the rest of the Pi session: process, flags, files, session entries, review in flight, last event
  autoClose,      \* review UI: the useAutoClose hook, its timers, the cookie and the browser tab
  sidebar,        \* review UI: the useSidebar hook
  linked,         \* review UI: the useLinkedDoc hook and the editor state it swaps
  planDiff,       \* review UI: the usePlanDiff hook and its fetches in flight
  reloc,          \* position reconciler: the blocks, the annotation handed to relocate, and its result
  share,          \* share codec: the document and annotations, the token and the decoded payload
  slugger         \* version history naming: the name handed to sanitizeTag and generateSlug, and their results

storeVars == << fs, today, calls, active, proc, out, resp, lastSave >>
diffVars == << oldText, newText, changes, diff >>
piVars == << phase, planFilePath, checklistItems, activeTools, pi >>
uiVars == << autoClose, sidebar, linked >>
toolVars == << planDiff, reloc, share, slugger >>
nonStoreVars == << diffVars, piVars, uiVars, toolVars >>
nonDiffVars == << storeVars, piVars, uiVars, toolVars >>
nonPiVars == << storeVars, diffVars, uiVars, toolVars >>
nonUiVars == << storeVars, diffVars, piVars, toolVars >>
nonToolVars == << storeVars, diffVars, piVars, uiVars >>
vars == << storeVars, diffVars, piVars, uiVars, toolVars >>

MdExt == << ".", "m", "d" >>
PadWidth == 3

\* `${String(n).padStart(3, "0")}.md`
VersionFileName(n) == padStart(NumToStr(n), PadWidth, "0") \o MdExt

\* entry.match(/^(\d+)\.md$/) followed by parseInt(match[1], 10)
MatchVersion(entry) ==
  LET n == Len(entry) - Len(MdExt)
  IN IF /\ n >= 1
        /\ SubSeq(entry, n + 1, Len(entry)) = MdExt
        /\ \A i \in 1..n : entry[i] \in Digits
     THEN parseInt(SubSeq(entry, 1, n))
     ELSE None

\* the orders in which readdir may list the directory entries es (the order
\* of a directory listing is not specified)
RECURSIVE Listings(_)
Listings(es) ==
  IF es = {} THEN { << >> }
  ELSE UNION { { << e >> \o l : l \in Listings(es \ { e }) } : e \in es }

\* readdirSync: the entries in some order; throws (the empty set of results
\* stands for the exception) without the directory
readdirSync(f, d) == IF f[d].exists THEN Listings(f[d].entries) ELSE {}

\* readFileSync: the data of the named file; throws (None) when it is missing
readFileSync(f, d, name) ==
  IF f[d].exists /\ \E e \in f[d].entries : e.name = name
  THEN Some((CHOOSE e \in f[d].entries : e.name = name).data)
  ELSE None

RECURSIVE MaxVersionOf(_, _)
MaxVersionOf(entries, max) ==
  IF entries = << >> THEN max
  ELSE LET m == MatchVersion(Head(entries).name)
       IN MaxVersionOf(Tail(entries), IF m # None /\ m[1] > max THEN m[1] ELSE max)

\* getNextVersionNumber on the listing readdirSync returned
getNextVersionNumber_Skip(entries) == MaxVersionOf(entries, 0) + 2

getNextVersionNumber_Reuse(entries) ==
  IF MaxVersionOf(entries, 0) = 0 THEN 1 ELSE MaxVersionOf(entries, 0)

getNextVersionNumber(entries) == MaxVersionOf(entries, 0) + 1

\* getNextVersionNumber when readdirSync throws
NextVersionOnError == 1

\* saveToHistory's dedup test: the latest version reads back identical to plan
LatestIsIdentical_Never(f, d, nextVersion, plan) == FALSE

LatestIsIdentical_WrongFile(f, d, nextVersion, plan) ==
  LET existing == readFileSync(f, d, VersionFileName(nextVersion))
  IN existing # None /\ existing[1] = plan

LatestIsIdentical_Any(f, d, nextVersion, plan) ==
  \E v \in 1..(nextVersion - 1) : readFileSync(f, d, VersionFileName(v)) = Some(plan)

LatestIsIdentical_Older(f, d, nextVersion, plan) ==
  LET existing == readFileSync(f, d, VersionFileName(nextVersion - 2))
  IN existing # None /\ existing[1] = plan

LatestIsIdentical(f, d, nextVersion, plan) ==
  LET existing == readFileSync(f, d, VersionFileName(nextVersion - 1))
  IN existing # None /\ existing[1] = plan

SaveFileName_Off(nextVersion) == VersionFileName(nextVersion + 1)

SaveFileName_Latest(nextVersion) == VersionFileName(IF nextVersion > 1 THEN nextVersion - 1 ELSE 1)

\* the file saveToHistory writes
SaveFileName(nextVersion) == VersionFileName(nextVersion)

PlanVersionDir_Mkdir(f, d) == [f EXCEPT ![d].exists = TRUE]

\* the directory getPlanVersion reads: join(homedir(), ...) creates nothing
PlanVersionDir(f, d) == f

getPlanVersion_Unpadded(f, d, version) == readFileSync(f, d, NumToStr(version) \o MdExt)

getPlanVersion(f, d, version) == readFileSync(f, d, VersionFileName(version))

\* getVersionCount on the listing readdirSync returned
getVersionCount(entries) == Len(SelectSeq(entries, LAMBDA e : MatchVersion(e.name) # None))

\* getVersionCount when readdirSync throws
CountOnError == 0

SortByVersion_None(vs) == vs

\* versions.sort((a, b) => a.version - b.version)
RECURSIVE SortByVersion(_)
SortByVersion(vs) ==
  IF vs = << >> THEN << >>
  ELSE LET i == CHOOSE k \in 1..Len(vs) : \A m \in 1..Len(vs) :
                  vs[k].version < vs[m].version \/ (vs[k].version = vs[m].version /\ k <= m)
       IN << vs[i] >> \o SortByVersion(SubSeq(vs, 1, i - 1) \o SubSeq(vs, i + 1, Len(vs)))

RECURSIVE CollectVersions(_)
CollectVersions(es) ==
  IF es = << >> THEN << >>
  ELSE LET m == MatchVersion(Head(es).name)
       IN (IF m # None THEN << [version |-> m[1], timestamp |-> Head(es).mtime] >> ELSE << >>)
          \o CollectVersions(Tail(es))

\* listVersions on the listing readdirSync returned
listVersions(entries) == SortByVersion(CollectVersions(entries))

\* writeFileSync: replaces the data of an existing file or creates the file
writeFileSync(f, d, name, data, mtime) ==
  [f EXCEPT ![d].entries = { e \in @ : e.name # name }
                             \cup { [name |-> name, data |-> data, mtime |-> mtime] }]

\* mkdirSync(historyDir, { recursive: true })
getHistoryDir(f, d) == [f EXCEPT ![d].exists = TRUE]

\* ------------------------------------------------------------------- state
NoResult == [version |-> 0, isNew |-> FALSE]
NoInfo == [version |-> 0, totalVersions |-> 0]
NoDir == [exists |-> FALSE, entries |-> {}]
NoOut == [op |-> "none", dir |-> << >>, arg |-> 0, val |-> << >>]
NoResp == [path |-> "none", status |-> 0, v |-> << >>, body |-> << >>]

IdleProc ==
  [pc |-> "idle", op |-> "none", dir |-> << >>, plan |-> << >>, nextVersion |-> 0,
   ret |-> NoResult, pre |-> NoDir, previousPlan |-> None, versionInfo |-> NoInfo]

InitCommon ==
  /\ fs = [d \in DirKeys |-> NoDir]
  /\ today = 1
  /\ calls = 0
  /\ proc = [p \in Procs |-> IdleProc]
  /\ out = NoOut
  /\ resp = NoResp
  /\ lastSave = None

NoDiff == [done |-> FALSE, blocks |-> << >>,
           stats |-> [additions |-> 0, deletions |-> 0, modifications |-> 0]]

InitDiffIdle ==
  /\ oldText = << >>
  /\ newText = << >>
  /\ changes = << >>
  /\ diff = NoDiff

\* ------------------------------------------------------ Pi extension state
PLANNING_TOOLS == { "read", "bash", "grep", "find", "ls", "write", "edit", "exit_plan_mode" }
EXECUTION_TOOLS == { "read", "bash", "edit", "write" }
NORMAL_TOOLS == { "read", "bash", "edit", "write" }

\* every tool registered with Pi: all are active until setActiveTools is called
AllTools == PLANNING_TOOLS \cup EXECUTION_TOOLS \cup NORMAL_TOOLS

\* values of the --plan-file flag ("" is falsy: the default path stays)
PlanFileFlags == { "", "alt.md" }

\* the resolved paths a plan file can have
PlanPaths == { "PLAN.md", "alt.md" }

\* file contents as line kinds: blank, text, "- [ ] ..." (todo), "- [x] ..." (done)
FileContents == { << "blank" >>, << "text" >>, << "done", "todo" >> }

NoCall == [tool |-> "none", input |-> "", block |-> FALSE]

\* the state of a freshly loaded extension (closure variables of plannotator(pi))
PiConstructed(files, lastState, doneMarks, ended) ==
  /\ phase = "idle"
  /\ planFilePath = "PLAN.md"
  /\ checklistItems = << >>
  /\ activeTools = AllTools
  /\ pi = [running |-> FALSE, files |-> files, lastState |-> lastState,
           doneMarks |-> doneMarks, pending |-> FALSE, lastEvent |-> "load",
           lastCall |-> NoCall, transitioned |-> FALSE, ended |-> ended]

InitPi == PiConstructed([p \in PlanPaths |-> None], None, { }, None)

\* ------------------------------------------------------ review UI state
\* useState({ phase: 'idle' }) of useAutoClose, nothing submitted, no timer
AutoCloseIdle(cookie, canClose) ==
  [state |-> [phase |-> "idle", remaining |-> 0], active |-> FALSE, cookie |-> cookie,
   delay |-> "none", canClose |-> canClose, window |-> "open", timer |-> FALSE,
   checks |-> 0, attempts |-> 0, opted |-> FALSE]

\* useState(initialOpen), useState("toc") of useSidebar
SidebarInitial(initialOpen) ==
  [isOpen |-> initialOpen, activeTab |-> "toc", op |-> [name |-> "none", tab |-> None]]



\* the linked documents /api/doc can serve, by resolved filepath
DocFiles == { "A.md", "B.md" }

\* the editor showing the plan, and a useLinkedDoc hook that has done nothing
LinkedInitial ==
  [markdown |-> "plan", annotations |-> { }, selectedAnnotationId |-> None,
   globalAttachments |-> { }, linkedDoc |-> None, error |-> None, isLoading |-> FALSE,
   savedPlanState |-> None, docCache |-> [f \in DocFiles |-> None], requests |-> << >>,
   op |-> "none", edits |-> 0, planSnapshot |-> None, leftWith |-> [f \in DocFiles |-> None]]

InitUi ==
  /\ autoClose = AutoCloseIdle(None, FALSE)
  /\ sidebar = SidebarInitial(FALSE)
  /\ linked = LinkedInitial

\* bound: open() calls whose fetch has not returned yet
MaxInFlight == 1

\* bound: annotations, selections and attachments the user makes in a session
MaxEdits == 2

\* usePlanDiff(currentPlan, initialPreviousPlan, versionInfo): the useState
\* initial values, with nothing in flight
PlanDiffMounted(initialPreviousPlan, versionInfo) ==
  [diffBasePlan |-> initialPreviousPlan,
   diffBaseVersion |-> IF versionInfo # None /\ versionInfo[1].version > 1
                       THEN Some(versionInfo[1].version - 1) ELSE None,
   versions |-> << >>, isLoadingVersions |-> FALSE,
   isSelectingVersion |-> FALSE, fetchingVersion |-> None,
   initialPreviousPlan |-> initialPreviousPlan, versionInfo |-> versionInfo,
   selecting |-> << >>, listing |-> 0]

\* the reconciler before any relocate call, for given blocks and annotation
RelocIdle(blocks, annotation) ==
  [blocks |-> blocks, annotation |-> annotation, result |-> None]

\* an annotation with no text target (a global comment)
NoAnnotation ==
  [type |-> "global-comment", targetText |-> None, note |-> None, author |-> None,
   position |-> None, orphaned |-> FALSE]

\* the share codec before any call, for a given document and annotation list
ShareIdle(document, annotations) ==
  [document |-> document, annotations |-> annotations, token |-> None, decoded |-> None]

\* nothing has been named yet
SluggerIdle(name, headed) ==
  [name |-> name, headed |-> headed, pc |-> "idle", tag |-> None, slug |-> << >>, day |-> 0]

InitTools ==
  /\ planDiff = PlanDiffMounted(None, None)
  /\ reloc = RelocIdle(<< >>, NoAnnotation)
  /\ share = ShareIdle(<< >>, << >>)
  /\ slugger = SluggerIdle(<< >>, FALSE)

Init == InitCommon /\ InitDiffIdle /\ InitPi /\ InitUi /\ InitTools /\ active = { 1 }

InitRace == InitCommon /\ InitDiffIdle /\ InitPi /\ InitUi /\ InitTools /\ active = Procs

\* ------------------------------------------------------------ saveToHistory
\* A caller enters saveToHistory(project, slug, plan).
SaveCall(p, d, plan) ==
  /\ p \in active
  /\ proc[p].pc = "idle"
  /\ calls < MaxCalls
  /\ calls' = calls + 1
  /\ proc' = [proc EXCEPT ![p] = [IdleProc EXCEPT !.pc = "scan", !.op = "save", !.dir = d,
                                                   !.plan = plan, !.pre = fs[d]]]
  /\ out' = NoOut
  /\ UNCHANGED << fs, today, active, resp, lastSave >>
  /\ UNCHANGED nonStoreVars

\* getHistoryDir (mkdir) and getNextVersionNumber (directory scan)
Scan(p) ==
  /\ proc[p].pc = "scan"
  /\ fs' = getHistoryDir(fs, proc[p].dir)
  /\ \E entries \in readdirSync(fs', proc[p].dir) :
       LET nextVersion == getNextVersionNumber(entries)
       IN proc' = [proc EXCEPT ![p].nextVersion = nextVersion,
                               ![p].pc = IF nextVersion > 1 THEN "compare" ELSE "write"]
  /\ out' = NoOut
  /\ UNCHANGED << today, calls, active, resp, lastSave >>
  /\ UNCHANGED nonStoreVars

\* the dedup read of version nextVersion - 1
Compare(p) ==
  /\ proc[p].pc = "compare"
  /\ IF LatestIsIdentical(fs, proc[p].dir, proc[p].nextVersion, proc[p].plan)
     THEN proc' = [proc EXCEPT ![p].ret = [version |-> proc[p].nextVersion - 1, isNew |-> FALSE],
                               ![p].pc = "returned"]
     ELSE proc' = [proc EXCEPT ![p].pc = "write"]
  /\ out' = NoOut
  /\ UNCHANGED << fs, today, calls, active, resp, lastSave >>
  /\ UNCHANGED nonStoreVars

\* writeFileSync(filePath, plan) and the return of { version, isNew: true }
Write(p) ==
  /\ proc[p].pc = "write"
  /\ fs' = writeFileSync(fs, proc[p].dir, SaveFileName(proc[p].nextVersion), proc[p].plan, calls)
  /\ proc' = [proc EXCEPT ![p].ret = [version |-> proc[p].nextVersion, isNew |-> TRUE],
                          ![p].pc = "returned"]
  /\ out' = NoOut
  /\ UNCHANGED << today, calls, active, resp, lastSave >>
  /\ UNCHANGED nonStoreVars

\* the caller of the storage API takes the result
Return(p) ==
  /\ proc[p].pc = "returned"
  /\ proc[p].op = "save"
  /\ proc' = [proc EXCEPT ![p] = IdleProc]
  /\ lastSave' = Some([dir |-> proc[p].dir, plan |-> proc[p].plan, ret |-> proc[p].ret])
  /\ out' = NoOut
  /\ UNCHANGED << fs, today, calls, active, resp >>
  /\ UNCHANGED nonStoreVars

\* ------------------------------------------------------------ read-only API
\* the storage functions are synchronous: a reader of the same process runs
\* between two saveToHistory calls, never inside one
BetweenCalls == \A p \in Procs : proc[p].pc \in { "idle", "serving" }

GetVersionCall(d, v) ==
  /\ BetweenCalls
  /\ fs' = PlanVersionDir(fs, d)
  /\ out' = [op |-> "getVersion", dir |-> d, arg |-> v, val |-> getPlanVersion(fs', d, v)]
  /\ resp' = NoResp
  /\ UNCHANGED << today, calls, active, proc, lastSave >>
  /\ UNCHANGED nonStoreVars

ListVersionsCall(d) ==
  /\ BetweenCalls
  /\ IF readdirSync(fs, d) = {}
     THEN out' = [op |-> "listVersions", dir |-> d, arg |-> 0, val |-> << >>]
     ELSE \E entries \in readdirSync(fs, d) :
            out' = [op |-> "listVersions", dir |-> d, arg |-> 0, val |-> listVersions(entries)]
  /\ UNCHANGED << fs, today, calls, active, proc, resp, lastSave >>
  /\ UNCHANGED nonStoreVars

CountVersionsCall(d) ==
  /\ BetweenCalls
  /\ IF readdirSync(fs, d) = {}
     THEN out' = [op |-> "countVersions", dir |-> d, arg |-> 0, val |-> << CountOnError >>]
     ELSE \E entries \in readdirSync(fs, d) :
            out' = [op |-> "countVersions", dir |-> d, arg |-> 0, val |-> << getVersionCount(entries) >>]
  /\ UNCHANGED << fs, today, calls, active, proc, resp, lastSave >>
  /\ UNCHANGED nonStoreVars

NextSave ==
  \/ \E p \in Procs, d \in ApiDirs, plan \in ApiPlans : SaveCall(p, d, plan)
  \/ \E p \in Procs : Scan(p)
  \/ \E p \in Procs : Compare(p)
  \/ \E p \in Procs : Write(p)
  \/ \E p \in Procs : Return(p)

Next ==
  \/ NextSave
  \/ \E d \in ApiDirs, v \in 1..(MaxCalls + 1) : GetVersionCall(d, v)
  \/ \E d \in ApiDirs : ListVersionsCall(d)
  \/ \E d \in ApiDirs : CountVersionsCall(d)

Spec == Init /\ [][Next]_vars

SpecRace == InitRace /\ [][NextSave]_vars

\* --------------------------------------------------- startPlanReviewServer
\* url.searchParams.get("v"): None when the parameter is missing
VParams ==
  { None, Some(<< >>), Some(<< "0" >>), Some(<< "1" >>), Some(<< "3" >>),
    Some(<< "x" >>), Some(<< "1", "x" >>), Some(<< "-", "1" >>), Some(<< " ", "2" >>) }

\* the extension calls startPlanReviewServer({ plan }): slug, project, and
\* entry into saveToHistory
StartPlanReviewServer(p, plan) ==
  /\ p \in active
  /\ proc[p].pc = "idle"
  /\ calls < MaxCalls
  /\ calls' = calls + 1
  /\ LET d == << detectProjectName, generateSlug(plan, today) >>
     IN proc' = [proc EXCEPT ![p] = [IdleProc EXCEPT !.pc = "scan", !.op = "review", !.dir = d,
                                                      !.plan = plan, !.pre = fs[d]]]
  /\ resp' = NoResp
  /\ UNCHANGED << fs, today, active, out, lastSave >>
  /\ UNCHANGED nonStoreVars

PreviousPlan_Current(f, d, historyResult) ==
  IF historyResult.version > 1 THEN getPlanVersion(f, d, historyResult.version) ELSE None

\* previousPlan of startPlanReviewServer
PreviousPlan(f, d, historyResult) ==
  IF historyResult.version > 1 THEN getPlanVersion(f, d, historyResult.version - 1) ELSE None

\* after saveToHistory returned: previousPlan, versionInfo, and the server listens
Listen(p) ==
  /\ proc[p].pc = "returned"
  /\ proc[p].op = "review"
  /\ \E entries \in readdirSync(fs, proc[p].dir) :
       proc' = [proc EXCEPT
                  ![p].previousPlan = PreviousPlan(fs, proc[p].dir, proc[p].ret),
                  ![p].versionInfo = [version |-> proc[p].ret.version,
                                      totalVersions |-> getVersionCount(entries)],
                  ![p].pc = "serving"]
  /\ UNCHANGED << fs, today, calls, active, out, resp, lastSave >>
  /\ UNCHANGED nonStoreVars

\* the status of GET /api/plan/version for parameter vParam
VersionStatus(f, d, vParam) ==
  IF vParam = None \/ vParam[1] = << >> THEN 400
  ELSE LET v == parseInt(vParam[1])
       IN IF v = None \/ v[1] < 1 THEN 400
          ELSE IF getPlanVersion(f, d, v[1]) = None THEN 404 ELSE 200

VersionBody(f, d, vParam) ==
  LET status == VersionStatus(f, d, vParam)
  IN IF status = 400
     THEN IF vParam = None \/ vParam[1] = << >> THEN << "Missing v parameter" >>
          ELSE << "Invalid version number" >>
     ELSE IF status = 404 THEN << "Version not found" >>
     ELSE << getPlanVersion(f, d, parseInt(vParam[1])[1])[1], parseInt(vParam[1])[1] >>

\* GET /api/plan/version?v=...
HandleVersion(p, vParam) ==
  /\ proc[p].pc = "serving"
  /\ fs' = PlanVersionDir(fs, proc[p].dir)
  /\ resp' = [path |-> "version", status |-> VersionStatus(fs', proc[p].dir, vParam),
              v |-> vParam, body |-> VersionBody(fs', proc[p].dir, vParam)]
  /\ out' = NoOut
  /\ UNCHANGED << today, calls, active, proc, lastSave >>
  /\ UNCHANGED nonStoreVars

\* GET /api/plan/versions
HandleVersions(p) ==
  /\ proc[p].pc = "serving"
  /\ IF readdirSync(fs, proc[p].dir) = {}
     THEN resp' = [path |-> "versions", status |-> 200, v |-> None, body |-> << >>]
     ELSE \E entries \in readdirSync(fs, proc[p].dir) :
            resp' = [path |-> "versions", status |-> 200, v |-> None, body |-> listVersions(entries)]
  /\ out' = NoOut
  /\ UNCHANGED << fs, today, calls, active, proc, lastSave >>
  /\ UNCHANGED nonStoreVars

\* GET /api/plan
HandlePlan(p) ==
  /\ proc[p].pc = "serving"
  /\ resp' = [path |-> "plan", status |-> 200, v |-> None,
              body |-> << proc[p].plan, proc[p].previousPlan, proc[p].versionInfo >>]
  /\ out' = NoOut
  /\ UNCHANGED << fs, today, calls, active, proc, lastSave >>
  /\ UNCHANGED nonStoreVars

\* POST /api/approve or /api/deny resolves the decision and the extension
\* stops the server
Decide(p, approved) ==
  /\ proc[p].pc = "serving"
  /\ proc' = [proc EXCEPT ![p] = IdleProc]
  /\ lastSave' = Some([dir |-> proc[p].dir, plan |-> proc[p].plan, ret |-> proc[p].ret])
  /\ resp' = [path |-> IF approved THEN "approve" ELSE "deny", status |-> 200, v |-> None,
              body |-> << >>]
  /\ out' = NoOut
  /\ UNCHANGED << fs, today, calls, active >>
  /\ UNCHANGED nonStoreVars

\* midnight passes
DayPasses ==
  /\ today < MaxDay
  /\ today' = today + 1
  /\ UNCHANGED << fs, calls, active, proc, out, resp, lastSave >>
  /\ UNCHANGED nonStoreVars

NextReview ==
  \/ \E p \in Procs, plan \in Plans : StartPlanReviewServer(p, plan)
  \/ \E p \in Procs : Scan(p)
  \/ \E p \in Procs : Compare(p)
  \/ \E p \in Procs : Write(p)
  \/ \E p \in Procs : Listen(p)
  \/ \E p \in Procs, vParam \in VParams : HandleVersion(p, vParam)
  \/ \E p \in Procs : HandleVersions(p)
  \/ \E p \in Procs : HandlePlan(p)
  \/ \E p \in Procs, approved \in BOOLEAN : Decide(p, approved)
  \/ \E d \in ApiDirs : GetVersionCall(d, 1)
  \/ DayPasses

SpecReview == Init /\ [][NextReview]_vars

\* -------------------------------------------------------- plan diff engine
\* the lines the diffed plans are made of
LineSet == { << >>, << "a" >>, << "b" >>, << "c" >> }

RECURSIVE JoinLines(_)
JoinLines(ls) ==
  IF ls = << >> THEN << >>
  ELSE IF Len(ls) = 1 THEN ls[1]
       ELSE ls[1] \o << "\n" >> \o JoinLines(Tail(ls))

LineSeqs == UNION { [1..n -> LineSet] : n \in 0..MaxLines }

\* the texts handed to computePlanDiff: up to MaxLines lines, with or
\* without a final newline
Texts ==
  { JoinLines(ls) : ls \in LineSeqs } \cup { JoinLines(ls) \o << "\n" >> : ls \in LineSeqs }

\* String.prototype.split with a one-character separator
RECURSIVE split(_, _)
split(text, sep) ==
  IF \A i \in 1..Len(text) : text[i] # sep THEN << text >>
  ELSE LET i == CHOOSE k \in 1..Len(text) :
                  text[k] = sep /\ \A j \in 1..(k - 1) : text[j] # sep
       IN << SubSeq(text, 1, i - 1) >> \o split(SubSeq(text, i + 1, Len(text)), sep)

countLines_Phantom(text) == Len(split(text, "\n"))

countLines(text) ==
  LET lines == split(text, "\n")
  IN IF Len(lines) > 0 /\ lines[Len(lines)] = << >>
     THEN Len(lines) - 1
     ELSE Len(lines)

\* diffLines tokens: every line with the newline that ends it
RECURSIVE tokenize(_)
tokenize(text) ==
  IF text = << >> THEN << >>
  ELSE LET parts == split(text, "\n")
       IN IF Len(parts) = 1 THEN << text >>
          ELSE << parts[1] \o << "\n" >> >>
               \o tokenize(SubSeq(text, Len(parts[1]) + 2, Len(text)))

\* every way to turn the token sequence o into n by keeping, deleting and
\* inserting tokens in order
RECURSIVE OpScripts(_, _)
OpScripts(o, n) ==
  IF o = << >> /\ n = << >> THEN { << >> }
  ELSE (IF o # << >> /\ n # << >> /\ Head(o) = Head(n)
        THEN { << [op |-> "keep", tok |-> Head(o)] >> \o s : s \in OpScripts(Tail(o), Tail(n)) }
        ELSE { })
       \cup (IF o # << >>
             THEN { << [op |-> "del", tok |-> Head(o)] >> \o s : s \in OpScripts(Tail(o), n) }
             ELSE { })
       \cup (IF n # << >>
             THEN { << [op |-> "ins", tok |-> Head(n)] >> \o s : s \in OpScripts(o, Tail(n)) }
             ELSE { })

\* the minimal scripts, removals before insertions inside each changed region
EditScripts(o, n) ==
  LET all == OpScripts(o, n)
      shortest == CHOOSE k \in { Len(s) : s \in all } : \A s \in all : k <= Len(s)
  IN { s \in all :
         /\ Len(s) = shortest
         /\ \A i \in 1..(Len(s) - 1) : ~(s[i].op = "ins" /\ s[i + 1].op = "del") }

\* consecutive operations of one kind become one run
RECURSIVE MergeRuns(_)
MergeRuns(s) ==
  IF s = << >> THEN << >>
  ELSE LET h == Head(s)
           rest == MergeRuns(Tail(s))
       IN IF rest # << >> /\ rest[1].op = h.op
          THEN << [op |-> h.op, value |-> h.tok \o rest[1].value,
                   count |-> rest[1].count + 1] >> \o Tail(rest)
          ELSE << [op |-> h.op, value |-> h.tok, count |-> 1] >> \o rest

\* a Change object of the diff library
ChangeOf(run) ==
  [value |-> run.value, count |-> run.count,
   added |-> run.op = "ins", removed |-> run.op = "del"]

\* what diffLines gives for two empty texts: no change at all, or (older
\* releases of the library) one empty unchanged change
EmptyDiffs ==
  { << >>, << [value |-> << >>, count |-> 0, added |-> FALSE, removed |-> FALSE] >> }

\* the Change lists diffLines(oldText, newText) can return
diffLines(old, new) ==
  LET o == tokenize(old)
      n == tokenize(new)
  IN IF o = << >> /\ n = << >> THEN EmptyDiffs
     ELSE { [i \in 1..Len(r) |-> ChangeOf(r[i])] :
              r \in { MergeRuns(s) : s \in EditScripts(o, n) } }

NoStats == [additions |-> 0, deletions |-> 0, modifications |-> 0]

\* change.removed && next?.added
IsModification(cs, i) ==
  cs[i].removed /\ i + 1 <= Len(cs) /\ cs[i + 1].added

ModifiedBlock_Swapped(change, next) ==
  [type |-> "modified", content |-> change.value, oldContent |-> Some(next.value),
   lines |-> countLines(next.value)]

ModifiedBlock(change, next) ==
  [type |-> "modified", content |-> next.value, oldContent |-> Some(change.value),
   lines |-> countLines(next.value)]

ClassifyChange_NoUnchanged(change) ==
  IF change.added THEN "added" ELSE "removed"

\* the else-if chain of the loop body
ClassifyChange(change) ==
  IF change.added THEN "added"
  ELSE IF change.removed THEN "removed"
  ELSE "unchanged"

PlainBlock(change) ==
  [type |-> ClassifyChange(change), content |-> change.value, oldContent |-> None,
   lines |-> countLines(change.value)]

NextIndex_NoSkip(i, consumedNext) == i + 1

\* the loop's i++, and the extra i++ that skips a consumed add
NextIndex(i, consumedNext) ==
  IF consumedNext THEN i + 2 ELSE i + 1

StatsAfter_ModifiedOnce(stats, block) ==
  [additions |-> stats.additions
                 + (IF block.type = "added" THEN countLines(block.content) ELSE 0),
   deletions |-> stats.deletions
                 + (IF block.type \in { "removed", "modified" }
                    THEN countLines(block.content) ELSE 0),
   modifications |-> stats.modifications + (IF block.type = "modified" THEN 1 ELSE 0)]

StatsAfter(stats, block) ==
  [additions |-> stats.additions
                 + (IF block.type \in { "added", "modified" } THEN countLines(block.content) ELSE 0),
   deletions |-> stats.deletions
                 + (IF block.type = "modified" THEN countLines(block.oldContent[1])
                    ELSE IF block.type = "removed" THEN countLines(block.content)
                    ELSE 0),
   modifications |-> stats.modifications + (IF block.type = "modified" THEN 1 ELSE 0)]

\* the for loop over changes, from index i on
RECURSIVE GroupChanges(_, _, _, _)
GroupChanges(cs, i, blocks, stats) ==
  IF i > Len(cs) THEN [done |-> TRUE, blocks |-> blocks, stats |-> stats]
  ELSE LET block == IF IsModification(cs, i)
                    THEN ModifiedBlock(cs[i], cs[i + 1])
                    ELSE PlainBlock(cs[i])
       IN GroupChanges(cs, NextIndex(i, IsModification(cs, i)),
                       Append(blocks, block), StatsAfter(stats, block))

computePlanDiff(oldT, newT) ==
  /\ ~diff.done
  /\ \E cs \in diffLines(oldT, newT) :
       /\ changes' = cs
       /\ diff' = GroupChanges(cs, 1, << >>, NoStats)
  /\ UNCHANGED << oldText, newText >>
  /\ UNCHANGED nonDiffVars

InitDiff ==
  /\ InitCommon
  /\ InitPi
  /\ InitUi
  /\ InitTools
  /\ active = { 1 }
  /\ oldText \in Texts
  /\ newText \in Texts
  /\ changes = << >>
  /\ diff = NoDiff

NextDiff == computePlanDiff(oldText, newText)

SpecDiff == InitDiff /\ [][NextDiff]_vars

\* =================================================================== claims
\* the version numbers stored in a directory, read off the file names
VersionsIn(es) == { v \in 1..(MaxCalls + 2) : \E e \in es : e.name = VersionFileName(v) }
MaxIn(es) == IF VersionsIn(es) = {} THEN 0 ELSE CHOOSE v \in VersionsIn(es) : \A w \in VersionsIn(es) : w <= v
DataAt(es, v) == { e.data : e \in { x \in es : x.name = VersionFileName(v) } }
Returned(p) == p \in active /\ proc[p].pc = "returned"
AdjacentDuplicate(es) ==
  \E v \in VersionsIn(es) : (v + 1) \in VersionsIn(es) /\ DataAt(es, v) = DataAt(es, v + 1)

\* C1: a save whose content is identical to the content of the current
\* maximum version writes no file and returns that maximum with isNew = false;
\* a call repeating the previous call's directory and content returns the
\* same version number, and exactly one file is stored for that number.
C1_Dedup ==
  \A p \in Procs : Returned(p) =>
    LET pre == proc[p].pre.entries
        now == fs[proc[p].dir].entries
    IN /\ (VersionsIn(pre) # {} /\ DataAt(pre, MaxIn(pre)) = { proc[p].plan })
            => /\ proc[p].ret = [version |-> MaxIn(pre), isNew |-> FALSE]
               /\ now = pre
       /\ (lastSave # None /\ lastSave[1].dir = proc[p].dir /\ lastSave[1].plan = proc[p].plan)
            => /\ proc[p].ret.version = lastSave[1].ret.version
               /\ ~proc[p].ret.isNew
               /\ Cardinality({ e \in now : MatchVersion(e.name) = Some(proc[p].ret.version) }) = 1

C1_Witness ==
  \E p \in Procs :
    /\ Returned(p) /\ ~proc[p].ret.isNew /\ proc[p].ret.version = 2
    /\ lastSave # None /\ lastSave[1].dir = proc[p].dir /\ lastSave[1].plan = proc[p].plan

\* C2: with a single writer the version numbers stored in a directory are
\* exactly 1..k: unique, contiguous and starting at 1.
C2_Contiguous ==
  \A d \in DirKeys :
    LET es == fs[d].entries
    IN /\ \A e \in es : MatchVersion(e.name) # None /\ MatchVersion(e.name)[1] >= 1
       /\ \A e1, e2 \in es : MatchVersion(e1.name) = MatchVersion(e2.name) => e1 = e2
       /\ { MatchVersion(e.name)[1] : e \in es } = 1..Cardinality(es)

C2_Witness == \E d \in DirKeys : Cardinality(fs[d].entries) = MaxCalls

\* C3: when no version exists or the content differs from the current maximum
\* version, the save stores the content under max + 1 (1 if none) and returns
\* that number with isNew = true; the n-th new content of a directory gets n.
C3_NewVersion ==
  \A p \in Procs : Returned(p) =>
    LET pre == proc[p].pre.entries
        now == fs[proc[p].dir].entries
    IN /\ (VersionsIn(pre) = {} \/ DataAt(pre, MaxIn(pre)) # { proc[p].plan })
            => /\ proc[p].ret = [version |-> MaxIn(pre) + 1, isNew |-> TRUE]
               /\ DataAt(now, MaxIn(pre) + 1) = { proc[p].plan }
               /\ VersionsIn(now) = VersionsIn(pre) \cup { MaxIn(pre) + 1 }
       /\ proc[p].ret.isNew => proc[p].ret.version = Cardinality(pre) + 1

\* scenario C: A -> {1, true}, A -> {1, false}, B -> {2, true}
C3_Witness ==
  \E p \in Procs :
    /\ Returned(p) /\ proc[p].ret = [version |-> 2, isNew |-> TRUE]
    /\ lastSave # None /\ lastSave[1].dir = proc[p].dir
    /\ lastSave[1].ret = [version |-> 1, isNew |-> FALSE]

\* C4: with a single writer a stored version is never overwritten or removed:
\* every step keeps each stored file with the same content.
C4_AppendOnly ==
  [][\A d \in DirKeys : \A e \in fs[d].entries :
       \E e2 \in fs'[d].entries : e2.name = e.name /\ e2.data = e.data]_vars

C4_Witness ==
  \E d \in DirKeys : Cardinality(fs[d].entries) >= 2 /\ out.op = "getVersion" /\ out.dir = d

\* C6: listVersions returns one entry per stored version in strictly
\* ascending order (empty without the directory) and countVersions returns
\* the number of entries listVersions returns.
C6_ListAndCount ==
  /\ out.op = "listVersions" =>
       /\ \A i \in 1..(Len(out.val) - 1) : out.val[i].version < out.val[i + 1].version
       /\ { out.val[i].version : i \in 1..Len(out.val) } = VersionsIn(fs[out.dir].entries)
       /\ Len(out.val) = Cardinality(fs[out.dir].entries)
       /\ ~fs[out.dir].exists => out.val = << >>
  /\ out.op = "countVersions" =>
       /\ out.val[1] = Cardinality(VersionsIn(fs[out.dir].entries))
       /\ \A l \in readdirSync(fs, out.dir) : out.val[1] = Len(listVersions(l))
       /\ ~fs[out.dir].exists => out.val[1] = 0

C6_Witness == out.op = "listVersions" /\ Len(out.val) = MaxCalls

\* C7: the scan, compare and write steps of two writers interleave without a
\* lock; a write creates two adjacent versions with identical content only
\* when the directory changed between the start of the call and its write.
C7_DuplicateOnlyByRace ==
  [][\A p \in Procs :
       (/\ proc[p].pc = "write" /\ proc'[p].pc = "returned"
        /\ ~AdjacentDuplicate(fs[proc[p].dir].entries)
        /\ AdjacentDuplicate(fs'[proc[p].dir].entries))
       => fs[proc[p].dir].entries # proc[p].pre.entries]_vars

C7_Witness == \E d \in DirKeys : AdjacentDuplicate(fs[d].entries)

\* a parameter that is a decimal integer: optional sign, then digits only,
\* white space around it ignored
IsDecimalInteger(s) ==
  LET t == trim(s)
      u == IF t # << >> /\ Head(t) \in { "-", "+" } THEN Tail(t) ELSE t
  IN u # << >> /\ \A i \in 1..Len(u) : u[i] \in Digits

Serving(p) == p \in active /\ proc[p].pc = "serving"

\* what getVersion and the endpoint must answer for a usable version number v
VersionAnswer(f, d, v, r) ==
  IF DataAt(f[d].entries, v) = {}
  THEN r.status = 404 /\ r.body = << "Version not found" >>
  ELSE r.status = 200 /\ { r.body[1] } = DataAt(f[d].entries, v) /\ r.body[2] = v

GetVersionAnswer(f, o) ==
  IF DataAt(f[o.dir].entries, o.arg) = {} THEN o.val = None
  ELSE { o.val[1] } = DataAt(f[o.dir].entries, o.arg) /\ Len(o.val) = 1

\* the statement of C5 as claimed: every parameter that is missing or is not
\* a number >= 1 is answered 400
C5_Original ==
  \A p \in Procs : (Serving(p) /\ resp.path = "version") =>
    IF resp.v = None \/ ~IsDecimalInteger(resp.v[1]) \/ parseInt(resp.v[1])[1] < 1
    THEN resp.status = 400
    ELSE VersionAnswer(fs, proc[p].dir, parseInt(resp.v[1])[1], resp)

\* C5 (amended): getVersion returns exactly the content stored under v and
\* null when v is not stored, and never changes the store; the endpoint
\* answers 404 "Version not found" for that null, and 400 for a parameter
\* that is missing or empty, that does not start (after white space and a
\* sign) with a decimal digit, or whose leading integer is < 1; a parameter
\* with a leading integer >= 1 followed by other characters is served as
\* that integer.
C5_GetVersion ==
  [][/\ (out'.op = "getVersion" /\ out' # out) => (fs' = fs /\ GetVersionAnswer(fs', out'))
     /\ \A p \in Procs : (Serving(p) /\ resp'.path = "version" /\ resp' # resp) =>
          /\ fs' = fs
          /\ IF resp'.v = None \/ resp'.v[1] = << >> THEN resp'.status = 400
             ELSE LET t == trimStart(resp'.v[1])
                      u == IF t # << >> /\ Head(t) \in { "-", "+" } THEN Tail(t) ELSE t
                      lead == DigitPrefix(u)
                  IN IF lead = << >> \/ (t # << >> /\ Head(t) = "-") \/ DigitsValue(lead, 0) < 1
                     THEN resp'.status = 400
                     ELSE VersionAnswer(fs', proc[p].dir, DigitsValue(lead, 0), resp')]_vars

C5_Witness == resp.path = "version" /\ resp.status = 200 /\ resp.v = Some(<< "1", "x" >>)

\* the statement of C8: a revised plan is stored as the next version of the
\* history of the previous submission and previousPlan is that submission
C8_ResubmissionDiff ==
  \A p \in Procs :
    (Serving(p) /\ lastSave # None /\ lastSave[1].plan # proc[p].plan) =>
      /\ proc[p].dir = lastSave[1].dir
      /\ proc[p].previousPlan = Some(lastSave[1].plan)
      /\ proc[p].versionInfo.version = lastSave[1].ret.version + 1

C8_SameSlugWitness ==
  \E p \in Procs :
    /\ Serving(p) /\ lastSave # None /\ lastSave[1].plan # proc[p].plan
    /\ proc[p].dir = lastSave[1].dir
    /\ proc[p].previousPlan = Some(lastSave[1].plan)

\* ------------------------------------------------------------ diff claims
OnlyUnchanged(T) ==
  /\ Len(diff.blocks) = 1
  /\ diff.blocks[1].type = "unchanged"
  /\ diff.blocks[1].content = T

PairStarts == { i \in 1..Len(changes) : IsModification(changes, i) }

\* the position in blocks of the block made from change i
BlockIndex(i) == i - Cardinality({ j \in PairStarts : j < i })

\* C10: every removed run of the edit script that is immediately followed by
\* an added run becomes one modified block (oldContent the removed text,
\* content the added text); every other run is a block of its own kind with
\* the run's text; no removed block is immediately followed by an added
\* block; old "a\nb\n" against new "a\nc\n" gives one modified block with
\* oldContent "b\n" and content "c\n" after the unchanged "a\n".
C10_ModifiedBlocks ==
  diff.done =>
    /\ Len(diff.blocks) = Len(changes) - Cardinality(PairStarts)
    /\ \A i \in PairStarts :
         /\ diff.blocks[BlockIndex(i)].type = "modified"
         /\ diff.blocks[BlockIndex(i)].oldContent = Some(changes[i].value)
         /\ diff.blocks[BlockIndex(i)].content = changes[i + 1].value
    /\ \A i \in 1..Len(changes) :
         (i \notin PairStarts /\ (i - 1) \notin PairStarts) =>
           /\ diff.blocks[BlockIndex(i)].content = changes[i].value
           /\ diff.blocks[BlockIndex(i)].oldContent = None
           /\ diff.blocks[BlockIndex(i)].type =
                (IF changes[i].added THEN "added"
                 ELSE IF changes[i].removed THEN "removed"
                 ELSE "unchanged")
    /\ \A k \in 1..(Len(diff.blocks) - 1) :
         ~(diff.blocks[k].type = "removed" /\ diff.blocks[k + 1].type = "added")
    /\ (oldText = << "a", "\n", "b", "\n" >> /\ newText = << "a", "\n", "c", "\n" >>) =>
         /\ Len(diff.blocks) = 2
         /\ diff.blocks[1].type = "unchanged"
         /\ diff.blocks[1].content = << "a", "\n" >>
         /\ diff.blocks[2].type = "modified"
         /\ diff.blocks[2].oldContent = Some(<< "b", "\n" >>)
         /\ diff.blocks[2].content = << "c", "\n" >>

C10_Witness ==
  /\ diff.done
  /\ oldText = << "a", "\n", "b", "\n" >>
  /\ newText = << "a", "\n", "c", "\n" >>
  /\ Len(changes) = 3
  /\ diff.blocks[2].type = "modified"

\* the number of newline characters of a text
NewlineCount(text) == Cardinality({ i \in 1..Len(text) : text[i] = "\n" })

\* the lines of a text: one per newline, and the last partial line if any
LinesOf(text) ==
  IF text = << >> THEN 0
  ELSE IF text[Len(text)] = "\n" THEN NewlineCount(text)
  ELSE NewlineCount(text) + 1

RECURSIVE SumSeq(_)
SumSeq(ns) == IF ns = << >> THEN 0 ELSE Head(ns) + SumSeq(Tail(ns))

SumOver(blocks, f(_)) == SumSeq([k \in 1..Len(blocks) |-> f(blocks[k])])

AddedLines(b) == IF b.type \in { "added", "modified" } THEN LinesOf(b.content) ELSE 0
DeletedLines(b) ==
  IF b.type = "removed" THEN LinesOf(b.content)
  ELSE IF b.type = "modified" THEN LinesOf(b.oldContent[1])
  ELSE 0
ModifiedCount(b) == IF b.type = "modified" THEN 1 ELSE 0

\* C11: for every pair of texts the stats of the result are: additions = the
\* lines of the content of all added and modified blocks; deletions = the
\* lines of the content of all removed blocks plus of the oldContent of all
\* modified blocks; modifications = the number of modified blocks.
C11_Stats ==
  diff.done =>
    /\ diff.stats.additions = SumOver(diff.blocks, AddedLines)
    /\ diff.stats.deletions = SumOver(diff.blocks, DeletedLines)
    /\ diff.stats.modifications = SumOver(diff.blocks, ModifiedCount)

C11_Witness ==
  /\ diff.done
  /\ oldText = << "a", "\n" >>
  /\ newText = << "b", "\n", "\n" >>
  /\ diff.blocks[1].type = "modified"
  /\ diff.stats = [additions |-> 2, deletions |-> 1, modifications |-> 1]

\* C12: the line count of a block's text is the number of its newline
\* characters when it ends with a newline, one more when it is non-empty and
\* does not end with a newline, and 0 for the empty text.
C12_CountLines ==
  diff.done =>
    \A k \in 1..Len(diff.blocks) :
      /\ diff.blocks[k].lines = LinesOf(diff.blocks[k].content)
      /\ diff.blocks[k].content = << >> => diff.blocks[k].lines = 0
      /\ (diff.blocks[k].content # << >>
            /\ diff.blocks[k].content[Len(diff.blocks[k].content)] = "\n")
           => diff.blocks[k].lines = NewlineCount(diff.blocks[k].content)

C12_Witness ==
  /\ diff.done
  /\ Len(diff.blocks) = 2
  /\ diff.blocks[1].content = << "a", "\n" >>
  /\ diff.blocks[1].lines = 1
  /\ diff.blocks[2].content = << "b" >>
  /\ diff.blocks[2].lines = 1

\* ------------------------------------------------------------ Pi extension
\* path.resolve(cwd, p) for the paths the agent names
resolve(p) == IF p = "./PLAN.md" THEN "PLAN.md" ELSE p

resolvePlanPath == resolve(planFilePath)

\* the paths the agent passes to write and edit
ToolPaths == { "./PLAN.md", "alt.md", "src/a.ts" }

\* the commands the agent passes to bash
Commands == { "ls", "rm PLAN.md", "cat a > b", "make" }

\* DESTRUCTIVE_PATTERNS.some(p => p.test(command)): \brm\b and the redirection >
IsDestructive(command) == command \in { "rm PLAN.md", "cat a > b" }

\* SAFE_PATTERNS.some(p => p.test(command)): ^\s*ls\b and ^\s*cat\b
IsSafePattern(command) == command \in { "ls", "cat a > b" }

isSafeCommand_AnySafe(command) == IsSafePattern(command)

isSafeCommand(command) == ~IsDestructive(command) /\ IsSafePattern(command)

\* planContent.trim().length === 0
IsBlank(content) == \A i \in 1..Len(content) : content[i] = "blank"

RECURSIVE ChecklistLines(_)
ChecklistLines(content) ==
  IF content = << >> THEN << >>
  ELSE IF Head(content) \in { "todo", "done" }
       THEN << Head(content) >> \o ChecklistLines(Tail(content))
       ELSE ChecklistLines(Tail(content))

\* one item per checkbox line, numbered from 1, completed when the box is ticked
parseChecklist(content) ==
  LET boxes == ChecklistLines(content)
  IN [i \in 1..Len(boxes) |-> [step |-> i, completed |-> boxes[i] = "done"]]

\* the [DONE:n] markers of one assistant message
DoneSets == { { }, { 2 }, { 3 } }

markCompletedSteps(doneSteps, items) ==
  [i \in 1..Len(items) |->
     [step |-> items[i].step, completed |-> items[i].completed \/ items[i].step \in doneSteps]]

\* pi.appendEntry("plannotator", { phase, planFilePath })
persistState(ph, path) == Some([phase |-> ph, planFilePath |-> path])

Event(name) == [pi EXCEPT !.lastEvent = name, !.lastCall = NoCall, !.ended = None]

enterPlanning ==
  /\ phase' = "planning"
  /\ checklistItems' = << >>
  /\ activeTools' = PLANNING_TOOLS
  /\ pi' = [Event("toggle") EXCEPT !.lastState = persistState("planning", planFilePath),
                                    !.transitioned = TRUE]
  /\ UNCHANGED planFilePath

exitToIdle ==
  /\ phase' = "idle"
  /\ checklistItems' = << >>
  /\ activeTools' = NORMAL_TOOLS
  /\ pi' = [Event("toggle") EXCEPT !.lastState = persistState("idle", planFilePath),
                                    !.transitioned = TRUE]
  /\ UNCHANGED planFilePath

\* the /plannotator command and the Ctrl+Alt+P shortcut
togglePlanMode ==
  /\ pi.running
  /\ IF phase = "idle" THEN enterPlanning ELSE exitToIdle
  /\ UNCHANGED nonPiVars

\* exit_plan_mode execute, up to the await of the browser decision.  The
\* review server it starts is the one of SpecReview; here only the fact that
\* a review is in flight is kept.
ExitPlanMode(hasUI) ==
  /\ pi.running /\ ~pi.pending
  /\ "exit_plan_mode" \in activeTools
  /\ IF phase # "planning"
     THEN /\ pi' = Event("exit:notPlanning")
          /\ UNCHANGED << phase, checklistItems, activeTools >>
     ELSE IF pi.files[resolvePlanPath] = None
     THEN /\ pi' = Event("exit:noFile")
          /\ UNCHANGED << phase, checklistItems, activeTools >>
     ELSE IF IsBlank(pi.files[resolvePlanPath][1])
     THEN /\ pi' = Event("exit:empty")
          /\ UNCHANGED << phase, checklistItems, activeTools >>
     ELSE /\ checklistItems' = parseChecklist(pi.files[resolvePlanPath][1])
          /\ IF ~hasUI
             THEN /\ phase' = "executing"
                  /\ activeTools' = EXECUTION_TOOLS
                  /\ pi' = [Event("exit:auto") EXCEPT
                              !.lastState = persistState("executing", planFilePath),
                              !.transitioned = TRUE]
             ELSE /\ pi' = [Event("exit:review") EXCEPT !.pending = TRUE]
                  /\ UNCHANGED << phase, activeTools >>
  /\ UNCHANGED planFilePath
  /\ UNCHANGED nonPiVars

\* exit_plan_mode execute after server.waitForDecision() resolves
ExitPlanModeDecision(approved) ==
  /\ pi.running /\ pi.pending
  /\ IF approved
     THEN /\ phase' = "executing"
          /\ activeTools' = EXECUTION_TOOLS
          /\ pi' = [Event("exit:approved") EXCEPT
                      !.pending = FALSE,
                      !.lastState = persistState("executing", planFilePath),
                      !.doneMarks = { },
                      !.transitioned = TRUE]
     ELSE /\ pi' = [Event("exit:denied") EXCEPT !.pending = FALSE]
          /\ UNCHANGED << phase, activeTools >>
  /\ UNCHANGED << planFilePath, checklistItems >>
  /\ UNCHANGED nonPiVars

\* before_agent_start: while executing the checklist is re-read from disk
BeforeAgentStart ==
  /\ pi.running /\ ~pi.pending
  /\ checklistItems' =
       IF phase = "executing" /\ Len(checklistItems) > 0 /\ pi.files[resolvePlanPath] # None
       THEN parseChecklist(pi.files[resolvePlanPath][1])
       ELSE checklistItems
  /\ pi' = Event("before_agent_start")
  /\ UNCHANGED << phase, planFilePath, activeTools >>
  /\ UNCHANGED nonPiVars

\* turn_end: Pi records the message in the session; the handler marks the
\* steps the assistant reports done
TurnEnd(assistant, doneSteps) ==
  /\ pi.running /\ ~pi.pending
  /\ LET tracking == phase = "executing" /\ Len(checklistItems) > 0 /\ assistant
     IN /\ checklistItems' =
             IF tracking THEN markCompletedSteps(doneSteps, checklistItems)
             ELSE checklistItems
        /\ pi' = [Event("turn_end") EXCEPT
                    !.doneMarks = IF assistant THEN @ \cup doneSteps ELSE @,
                    !.lastState = IF tracking THEN persistState(phase, planFilePath) ELSE @]
  /\ UNCHANGED << phase, planFilePath, activeTools >>
  /\ UNCHANGED nonPiVars

\* agent_end: the plan is complete when every checklist item is completed
AgentEnd ==
  /\ pi.running /\ ~pi.pending
  /\ IF /\ phase = "executing" /\ Len(checklistItems) > 0
        /\ (\A i \in 1..Len(checklistItems) : checklistItems[i].completed)
     THEN /\ phase' = "idle"
          /\ checklistItems' = << >>
          /\ activeTools' = NORMAL_TOOLS
          /\ pi' = [Event("complete") EXCEPT
                      !.lastState = persistState("idle", planFilePath),
                      !.transitioned = TRUE]
     ELSE /\ pi' = Event("agent_end")
          /\ UNCHANGED << phase, checklistItems, activeTools >>
  /\ UNCHANGED planFilePath
  /\ UNCHANGED nonPiVars

\* the verdict of the tool_call handler: block the call or let it through
GateBlocks_WriteOnly(tool, input) ==
  /\ phase = "planning"
  /\ tool \in { "write", "edit" } /\ resolve(input) # resolvePlanPath

GateBlocks(tool, input) ==
  /\ phase = "planning"
  /\ \/ tool = "bash" /\ ~isSafeCommand(input)
     \/ tool \in { "write", "edit" } /\ resolve(input) # resolvePlanPath

\* what the tool does to the plan files when Pi runs it
FilesAfter(tool, input, content) ==
  IF tool = "write" /\ resolve(input) \in PlanPaths
  THEN [pi.files EXCEPT ![resolve(input)] = Some(content)]
  ELSE IF tool = "edit" /\ resolve(input) \in PlanPaths /\ pi.files[resolve(input)] # None
  THEN [pi.files EXCEPT ![resolve(input)] = Some(content)]
  ELSE IF tool = "bash" /\ input = "rm PLAN.md"
  THEN [pi.files EXCEPT !["PLAN.md"] = None]
  ELSE pi.files

\* a tool call of the agent: the tool_call handler, then the tool itself
\* unless the handler blocked it
ToolCall(tool, input, content) ==
  /\ pi.running /\ ~pi.pending
  /\ tool \in activeTools
  /\ input \in (IF tool = "bash" THEN Commands ELSE ToolPaths)
  /\ pi' = [pi EXCEPT
              !.lastEvent = "tool_call",
              !.ended = None,
              !.lastCall = [tool |-> tool, input |-> input,
                            block |-> GateBlocks(tool, input)],
              !.files = IF GateBlocks(tool, input) THEN @
                        ELSE FilesAfter(tool, input, content)]
  /\ UNCHANGED << phase, planFilePath, checklistItems, activeTools >>
  /\ UNCHANGED nonPiVars

RestoredPhase_Flag(flagPhase) == flagPhase

\* phase = stateEntry.data.phase ?? phase
RestoredPhase(flagPhase) ==
  IF pi.lastState # None THEN pi.lastState[1].phase ELSE flagPhase

\* session_start
SessionStart(planFlag, planFileFlag) ==
  /\ ~pi.running
  /\ LET flagPath == IF planFileFlag # "" THEN planFileFlag ELSE planFilePath
         flagPhase == IF planFlag THEN "planning" ELSE phase
         restored == RestoredPhase(flagPhase)
         path == IF pi.lastState # None THEN pi.lastState[1].planFilePath ELSE flagPath
         exists == pi.files[resolve(path)] # None
         final == IF restored = "executing" /\ ~exists THEN "idle" ELSE restored
     IN /\ planFilePath' = path
        /\ phase' = final
        /\ checklistItems' =
             IF restored = "executing" /\ exists
             THEN markCompletedSteps(pi.doneMarks, parseChecklist(pi.files[resolve(path)][1]))
             ELSE checklistItems
        /\ activeTools' =
             IF final = "planning" THEN PLANNING_TOOLS
             ELSE IF final = "executing" THEN EXECUTION_TOOLS
             ELSE activeTools
        /\ pi' = [pi EXCEPT !.lastEvent = "session_start", !.running = TRUE]
  /\ UNCHANGED nonPiVars

\* the Pi process ends and is started again on the same session and files
Restart ==
  /\ pi.running
  /\ phase' = "idle"
  /\ planFilePath' = "PLAN.md"
  /\ checklistItems' = << >>
  /\ activeTools' = AllTools
  /\ pi' = [running |-> FALSE, files |-> pi.files, lastState |-> pi.lastState,
            doneMarks |-> pi.doneMarks, pending |-> FALSE,
            lastEvent |-> "load", lastCall |-> NoCall, transitioned |-> FALSE,
            ended |-> IF pi.transitioned
                      THEN Some([phase |-> phase, planFilePath |-> planFilePath])
                      ELSE None]
  /\ UNCHANGED nonPiVars


NextPi ==
  \/ togglePlanMode
  \/ \E hasUI \in BOOLEAN : ExitPlanMode(hasUI)
  \/ \E approved \in BOOLEAN : ExitPlanModeDecision(approved)
  \/ BeforeAgentStart
  \/ \E assistant \in BOOLEAN, doneSteps \in DoneSets : TurnEnd(assistant, doneSteps)
  \/ AgentEnd
  \/ \E tool \in { "bash", "write", "edit" }, input \in ToolPaths \cup Commands,
        content \in FileContents : ToolCall(tool, input, content)
  \/ \E planFlag \in BOOLEAN, planFileFlag \in PlanFileFlags :
       SessionStart(planFlag, planFileFlag)
  \/ Restart

SpecPi == Init /\ [][NextPi]_vars

\* ----------------------------------------------------- Pi extension claims
PhaseChanged == phase' # phase /\ pi'.lastEvent \notin { "session_start", "load" }

\* the statement of C13: apart from session_start, planning is entered only
\* from idle, executing only from planning by an approved or auto-approved
\* exit_plan_mode, a denied review leaves the phase as it is, and idle is
\* re-entered only by the toggle or, from executing, when the plan completes.
C13_PhaseMachine ==
  [][/\ PhaseChanged =>
          \/ phase = "idle" /\ phase' = "planning" /\ pi'.lastEvent = "toggle"
          \/ /\ phase = "planning" /\ phase' = "executing"
             /\ pi'.lastEvent \in { "exit:auto", "exit:approved" }
          \/ phase' = "idle" /\ pi'.lastEvent = "toggle"
          \/ phase = "executing" /\ phase' = "idle" /\ pi'.lastEvent = "complete"
     /\ pi'.lastEvent = "exit:denied" => phase' = phase]_vars

\* the statement of C14: in planning the edit tool is not offered and edit
\* calls are refused, writes outside the plan file are blocked, and bash
\* commands outside the read-only allowlist are blocked.
C14_PlanningGate ==
  (pi.running /\ phase = "planning") =>
    /\ "edit" \notin activeTools
    /\ pi.lastCall.tool = "edit" => pi.lastCall.block
    /\ (pi.lastCall.tool = "write" /\ resolve(pi.lastCall.input) # resolve(planFilePath))
         => pi.lastCall.block
    /\ (pi.lastCall.tool = "bash"
          /\ ~(IsSafePattern(pi.lastCall.input) /\ ~IsDestructive(pi.lastCall.input)))
         => pi.lastCall.block

CookieValues == { None, Some("off"), Some("0"), Some("3"), Some("5"), Some("true"), Some("x") }

getAutoCloseDelay_No5(val) ==
  IF val = Some("0") \/ val = Some("3") THEN val[1]
  ELSE IF val = Some("true") THEN "0"
  ELSE "off"

getAutoCloseDelay(val) ==
  IF val = Some("0") \/ val = Some("3") \/ val = Some("5") THEN val[1]
  ELSE IF val = Some("true") THEN "0"
  ELSE "off"

\* Number(delay)
DelaySeconds(delay) == IF delay = "3" THEN 3 ELSE IF delay = "5" THEN 5 ELSE 0

\* tryClose: window.close(), and the check 300 ms later when the tab is still there
tryClose(ac) ==
  IF ac.canClose
  THEN [ac EXCEPT !.attempts = @ + 1, !.window = "closed"]
  ELSE [ac EXCEPT !.attempts = @ + 1, !.checks = @ + 1]

\* setState(st), then the countdown effect for the new state: clear the old
\* timer, and either try to close (remaining <= 0) or start a one-second timer
SetState(ac, st) ==
  LET set == [ac EXCEPT !.state = st, !.timer = FALSE]
  IN IF st.phase # "counting" THEN set
     ELSE IF st.remaining <= 0 THEN tryClose(set)
     ELSE [set EXCEPT !.timer = TRUE]

\* the user changes the Auto-close tab setting (the cookie is read on activation only)
SetAutoCloseDelay(val) ==
  /\ autoClose.window = "open"
  /\ val # None /\ val # autoClose.cookie
  /\ autoClose' = [autoClose EXCEPT !.cookie = val]
  /\ UNCHANGED << sidebar, linked >>
  /\ UNCHANGED nonUiVars

\* the activation effect: the form was submitted (active becomes true)
Activate ==
  /\ ~autoClose.active /\ autoClose.window = "open"
  /\ LET delay == getAutoCloseDelay(autoClose.cookie)
         ac == [autoClose EXCEPT !.active = TRUE, !.delay = delay]
     IN autoClose' =
          IF delay = "0"
          THEN SetState(tryClose(ac), [phase |-> "closed", remaining |-> 0])
          ELSE IF delay # "off"
          THEN SetState(ac, [phase |-> "counting", remaining |-> DelaySeconds(delay)])
          ELSE SetState(ac, [phase |-> "prompt", remaining |-> 0])
  /\ UNCHANGED << sidebar, linked >>
  /\ UNCHANGED nonUiVars

\* the one-second timer of the countdown effect fires
Tick ==
  /\ autoClose.timer /\ autoClose.window = "open"
  /\ autoClose' =
       IF autoClose.state.phase = "counting"
       THEN SetState(autoClose, [phase |-> "counting",
                                 remaining |-> autoClose.state.remaining - 1])
       ELSE [autoClose EXCEPT !.timer = FALSE]
  /\ UNCHANGED << sidebar, linked >>
  /\ UNCHANGED nonUiVars

\* the 300 ms check of tryClose fires in a tab that is still open: onFail
CloseCheck ==
  /\ autoClose.checks > 0 /\ autoClose.window = "open"
  /\ autoClose' =
       SetState([autoClose EXCEPT !.checks = @ - 1], [phase |-> "closeFailed", remaining |-> 0])
  /\ UNCHANGED << sidebar, linked >>
  /\ UNCHANGED nonUiVars

\* the opt-in checkbox, shown by CompletionOverlay in the prompt phase
enableAndStart ==
  /\ autoClose.state.phase = "prompt" /\ autoClose.window = "open"
  /\ autoClose' = SetState([autoClose EXCEPT !.cookie = Some("3"), !.opted = TRUE],
                           [phase |-> "counting", remaining |-> 3])
  /\ UNCHANGED << sidebar, linked >>
  /\ UNCHANGED nonUiVars

InitAutoCloseTab ==
  /\ InitCommon /\ InitDiffIdle /\ InitPi /\ InitTools /\ active = { 1 }
  /\ sidebar = SidebarInitial(FALSE) /\ linked = LinkedInitial
  /\ \E cookie \in CookieValues, canClose \in BOOLEAN :
       autoClose = AutoCloseIdle(cookie, canClose)

NextAutoClose ==
  \/ \E val \in CookieValues : SetAutoCloseDelay(val)
  \/ Activate
  \/ Tick
  \/ CloseCheck
  \/ enableAndStart

SpecAutoClose == InitAutoCloseTab /\ [][NextAutoClose]_vars

\* an activation step, and a one-second tick of a running countdown
ActivationStep == ~autoClose.active /\ autoClose'.active

CountdownStep ==
  /\ autoClose.state.phase = "counting" /\ autoClose'.state.phase = "counting"
  /\ autoClose'.state # autoClose.state

\* C16: before activation the phase stays idle and nothing is closed; on
\* activation the setting Off (or no setting) gives the prompt phase and no
\* close attempt until the user opts in, Immediately gives one close attempt
\* at once, After 3 (5) seconds gives phase counting with remaining 3 (5);
\* every tick takes exactly 1 from remaining, remaining never goes below 0,
\* and a countdown has attempted a close exactly when remaining is 0.
C16_AutoClose ==
  /\ [](/\ ~autoClose.active =>
             autoClose.state.phase = "idle" /\ autoClose.attempts = 0
        /\ autoClose.state.remaining >= 0
        /\ (autoClose.active /\ autoClose.delay = "off" /\ ~autoClose.opted) =>
             autoClose.state.phase = "prompt" /\ autoClose.attempts = 0
        /\ autoClose.state.phase = "counting" =>
             (autoClose.attempts = 0 <=> autoClose.state.remaining > 0))
  /\ [][/\ (ActivationStep /\ autoClose.cookie \in { None, Some("off") }) =>
             autoClose'.state.phase = "prompt" /\ autoClose'.attempts = 0
        /\ (ActivationStep /\ autoClose.cookie = Some("0")) => autoClose'.attempts = 1
        /\ (ActivationStep /\ autoClose.cookie = Some("3")) =>
             autoClose'.state = [phase |-> "counting", remaining |-> 3]
        /\ (ActivationStep /\ autoClose.cookie = Some("5")) =>
             autoClose'.state = [phase |-> "counting", remaining |-> 5]
        /\ CountdownStep =>
             /\ autoClose'.state.remaining = autoClose.state.remaining - 1
             /\ autoClose'.attempts =
                  autoClose.attempts + (IF autoClose'.state.remaining = 0 THEN 1 ELSE 0)]_vars

\* a five-second countdown that has run down to 0 and tried to close the tab
C16_Witness ==
  /\ autoClose.delay = "5" /\ ~autoClose.opted
  /\ autoClose.state = [phase |-> "counting", remaining |-> 0]
  /\ autoClose.attempts = 1

\* C17: the phase closed means window.close() succeeded and is terminal (no
\* phase transition ever leaves it), and closeFailed is reached only after a
\* close attempt that the browser blocked.
C17_ClosedTerminal ==
  /\ [](/\ autoClose.state.phase = "closed" => autoClose.window = "closed"
        /\ autoClose.state.phase = "closeFailed" =>
             ~autoClose.canClose /\ autoClose.attempts > 0)
  /\ [][autoClose.state.phase = "closed" => autoClose'.state.phase = "closed"]_vars

\* ------------------------------------------------------------------ sidebar
SidebarTab == { "toc", "versions" }

\* open(tab?): setIsOpen(true); if (tab) setActiveTab(tab)
OpenedSidebar(sb, tab) ==
  [isOpen |-> TRUE, activeTab |-> IF tab = None THEN sb.activeTab ELSE tab[1],
   op |-> [name |-> "open", tab |-> tab]]

ToggledSidebar_KeepTab(sb, tab) ==
  [isOpen |-> IF ~sb.isOpen THEN TRUE ELSE sb.activeTab # tab,
   activeTab |-> IF sb.isOpen /\ sb.activeTab # tab THEN tab ELSE sb.activeTab,
   op |-> [name |-> "toggleTab", tab |-> Some(tab)]]

ToggledSidebar(sb, tab) ==
  [isOpen |-> IF ~sb.isOpen THEN TRUE ELSE sb.activeTab # tab,
   activeTab |-> IF ~sb.isOpen \/ sb.activeTab # tab THEN tab ELSE sb.activeTab,
   op |-> [name |-> "toggleTab", tab |-> Some(tab)]]

SidebarOpen(tab) ==
  /\ sidebar' = OpenedSidebar(sidebar, tab)
  /\ UNCHANGED << autoClose, linked >>
  /\ UNCHANGED nonUiVars

SidebarClose ==
  /\ sidebar' = [sidebar EXCEPT !.isOpen = FALSE, !.op = [name |-> "close", tab |-> None]]
  /\ UNCHANGED << autoClose, linked >>
  /\ UNCHANGED nonUiVars

toggleTab(tab) ==
  /\ sidebar' = ToggledSidebar(sidebar, tab)
  /\ UNCHANGED << autoClose, linked >>
  /\ UNCHANGED nonUiVars

\* ---------------------------------------------------------- linked documents
\* the paths a link in a document can name; "missing.md" is not served
DocPaths == DocFiles \cup { "missing.md" }

\* annotation and attachment ids the user can create in a document
AnnotationIds == { "n1" }

\* the editor state the hook is given: what is on screen
View(l) ==
  [markdown |-> l.markdown, annotations |-> l.annotations,
   selectedAnnotationId |-> l.selectedAnnotationId,
   globalAttachments |-> l.globalAttachments]

CachedDocState(v) == [annotations |-> v.annotations, globalAttachments |-> v.globalAttachments]

\* the user annotates, selects, or attaches an image to what is on screen
setAnnotations(id) ==
  /\ linked.edits < MaxEdits /\ id \notin linked.annotations
  /\ linked' = [linked EXCEPT !.annotations = @ \cup { id }, !.op = "none",
                              !.edits = @ + 1]
  /\ UNCHANGED << autoClose, sidebar >>
  /\ UNCHANGED nonUiVars

setSelectedAnnotationId(sel) ==
  /\ linked.edits < MaxEdits /\ sel # linked.selectedAnnotationId
  /\ linked' = [linked EXCEPT !.selectedAnnotationId = sel, !.op = "none",
                              !.edits = @ + 1]
  /\ UNCHANGED << autoClose, sidebar >>
  /\ UNCHANGED nonUiVars

setGlobalAttachments ==
  /\ linked.edits < MaxEdits /\ "img" \notin linked.globalAttachments
  /\ linked' = [linked EXCEPT !.globalAttachments = @ \cup { "img" }, !.op = "none",
                              !.edits = @ + 1]
  /\ UNCHANGED << autoClose, sidebar >>
  /\ UNCHANGED nonUiVars

\* open(docPath) up to its await: the callback of the current render, with the
\* editor state and linkedDoc of that render in its closure, starts the fetch
OpenCall(docPath) ==
  /\ Len(linked.requests) < MaxInFlight
  /\ linked' = [linked EXCEPT
       !.isLoading = TRUE, !.error = None, !.op = "none",
       !.requests = Append(@, [docPath |-> docPath, view |-> View(linked),
                               linkedDoc |-> linked.linkedDoc])]
  /\ UNCHANGED << autoClose, sidebar >>
  /\ UNCHANGED nonUiVars

\* open(docPath) after the await: the response of /api/doc (the document, an
\* error for a path that is not served, or no connection) is handled with the
\* values of the closure
OpenResolve(i, connected) ==
  /\ i \in 1..Len(linked.requests)
  /\ LET r == linked.requests[i]
         rest == [linked EXCEPT !.isLoading = FALSE,
                    !.requests = SubSeq(@, 1, i - 1) \o SubSeq(@, i + 1, Len(@))]
         cache == IF linked.savedPlanState # None /\ r.linkedDoc # None
                  THEN [linked.docCache EXCEPT ![r.linkedDoc[1]] = Some(CachedDocState(r.view))]
                  ELSE linked.docCache
         cached == cache[r.docPath]
     IN IF ~connected
        THEN /\ linked' = [rest EXCEPT !.error = Some("Failed to connect to server"),
                                       !.op = "none"]
             /\ UNCHANGED sidebar
        ELSE IF r.docPath \notin DocFiles
        THEN /\ linked' = [rest EXCEPT !.error = Some("Failed to load document"),
                                       !.op = "none"]
             /\ UNCHANGED sidebar
        ELSE /\ linked' = [rest EXCEPT
                  !.savedPlanState = IF @ = None THEN Some(r.view) ELSE @,
                  !.docCache = cache,
                  !.markdown = r.docPath,
                  !.annotations = IF cached = None THEN { } ELSE cached[1].annotations,
                  !.globalAttachments =
                     IF cached = None THEN { } ELSE cached[1].globalAttachments,
                  !.selectedAnnotationId = None,
                  !.linkedDoc = Some(r.docPath),
                  !.op = "opened",
                  !.leftWith = IF linked.linkedDoc = None THEN @
                               ELSE [@ EXCEPT ![linked.linkedDoc[1]] =
                                       Some(CachedDocState(linked))],
                  !.planSnapshot = IF r.linkedDoc = None /\ linked.linkedDoc = None
                                   THEN Some(r.view) ELSE @]
             /\ sidebar' = OpenedSidebar(sidebar, Some("toc"))
  /\ UNCHANGED autoClose
  /\ UNCHANGED nonUiVars

back ==
  /\ linked' =
       IF linked.savedPlanState = None THEN [linked EXCEPT !.op = "back"]
       ELSE LET saved == linked.savedPlanState[1]
            IN [linked EXCEPT
                  !.docCache = IF linked.linkedDoc = None THEN @
                               ELSE [@ EXCEPT ![linked.linkedDoc[1]] =
                                       Some(CachedDocState(linked))],
                  !.markdown = saved.markdown,
                  !.annotations = saved.annotations,
                  !.globalAttachments = saved.globalAttachments,
                  !.selectedAnnotationId = saved.selectedAnnotationId,
                  !.linkedDoc = None,
                  !.error = None,
                  !.savedPlanState = None,
                  !.op = "back",
                  !.leftWith = IF linked.linkedDoc = None THEN @
                               ELSE [@ EXCEPT ![linked.linkedDoc[1]] =
                                       Some(CachedDocState(linked))]]
  /\ UNCHANGED << autoClose, sidebar >>
  /\ UNCHANGED nonUiVars

dismissError ==
  /\ linked.error # None
  /\ linked' = [linked EXCEPT !.error = None, !.op = "none"]
  /\ UNCHANGED << autoClose, sidebar >>
  /\ UNCHANGED nonUiVars

\* the sidebar, with the linked-document navigation that also opens it
NextSidebar ==
  \/ \E tab \in { None } \cup { Some(t) : t \in SidebarTab } : SidebarOpen(tab)
  \/ SidebarClose
  \/ \E tab \in SidebarTab : toggleTab(tab)
  \/ \E docPath \in DocPaths : OpenCall(docPath)
  \/ \E i \in 1..MaxInFlight, connected \in BOOLEAN : OpenResolve(i, connected)
  \/ back
  \/ dismissError

SpecSidebar == Init /\ [][NextSidebar]_vars

NextLinked ==
  \/ \E id \in AnnotationIds : setAnnotations(id)
  \/ \E sel \in { None } \cup { Some(a) : a \in linked.annotations } :
       setSelectedAnnotationId(sel)
  \/ setGlobalAttachments
  \/ \E docPath \in DocPaths : OpenCall(docPath)
  \/ \E i \in 1..MaxInFlight, connected \in BOOLEAN : OpenResolve(i, connected)
  \/ back
  \/ dismissError

SpecLinked == Init /\ [][NextLinked]_vars

\* C18: a call that changes the sidebar obeys: toggleTab(tab) on a closed
\* sidebar opens it with activeTab = tab, on a sidebar open at tab closes it,
\* on a sidebar open at another tab keeps it open and makes tab active;
\* close() never changes activeTab; open() without a tab keeps activeTab.
C18_Sidebar ==
  [][sidebar' # sidebar =>
       /\ sidebar'.op.name = "toggleTab" =>
            LET tab == sidebar'.op.tab[1]
            IN IF ~sidebar.isOpen THEN sidebar'.isOpen /\ sidebar'.activeTab = tab
               ELSE IF sidebar.activeTab = tab THEN ~sidebar'.isOpen
               ELSE sidebar'.isOpen /\ sidebar'.activeTab = tab
       /\ sidebar'.op.name = "close" =>
            ~sidebar'.isOpen /\ sidebar'.activeTab = sidebar.activeTab
       /\ sidebar'.op = [name |-> "open", tab |-> None] =>
            sidebar'.isOpen /\ sidebar'.activeTab = sidebar.activeTab]_vars

\* toggleTab("versions") has opened a closed sidebar that had "toc" active,
\* while a linked document is on screen
C18_Witness ==
  /\ sidebar = [isOpen |-> TRUE, activeTab |-> "versions",
                op |-> [name |-> "toggleTab", tab |-> Some("versions")]]
  /\ linked.linkedDoc # None

\* a call of back(): the only steps that leave op = "back" and change anything
BackStep == linked'.op = "back" /\ linked' # linked

\* C19: back() with a linked document active (after one or more successful
\* opens, also from inside a linked document) puts back the markdown,
\* annotations, selectedAnnotationId and globalAttachments the plan had just
\* before the first open() and leaves no linked document active; back()
\* with no linked document active changes nothing on screen.
C19_BackToPlan ==
  [][BackStep =>
       IF linked.linkedDoc # None
       THEN /\ linked.planSnapshot # None
            /\ View(linked') = linked.planSnapshot[1]
            /\ linked'.linkedDoc = None
       ELSE View(linked') = View(linked) /\ linked'.linkedDoc = None]_vars

\* a successful open(): the document of a request is put on screen
OpenedStep == linked'.op = "opened" /\ linked' # linked

\* C20: a successful open() of a filepath shows exactly the annotations and
\* global attachments that document had on screen when it was last left (by
\* back() or by opening a document), and none for a filepath never visited;
\* so no other document's and no plan's annotations are shown for it.
C20_DocCache ==
  [][OpenedStep =>
       LET left == linked'.leftWith[linked'.linkedDoc[1]]
       IN CachedDocState(linked') =
            IF left = None THEN [annotations |-> { }, globalAttachments |-> { }]
            ELSE left[1]]_vars

\* ---------------------------------------------------------------- plan diff
\* bound: selectBaseVersion calls whose fetch has not returned yet
MaxSelect == 2

\* bound: the versions the version browser lists
MaxVersion == 3

\* the plan text /api/plan/version?v= serves for a version
VersionPlan(version) == << "v", DigitChars[version + 1] >>

\* the /api/plan response arrives after mount: the props change and the two
\* sync effects run
PropsArrive(initialPreviousPlan, versionInfo) ==
  /\ planDiff.versionInfo = None
  /\ planDiff' = [planDiff EXCEPT
       !.initialPreviousPlan = initialPreviousPlan,
       !.versionInfo = Some(versionInfo),
       !.diffBasePlan = IF initialPreviousPlan # None /\ @ = None
                        THEN initialPreviousPlan ELSE @,
       !.diffBaseVersion = IF versionInfo.version > 1 /\ @ = None
                           THEN Some(versionInfo.version - 1) ELSE @]
  /\ UNCHANGED << reloc, share, slugger >>
  /\ UNCHANGED nonToolVars

\* selectBaseVersion(version) up to its await: a click on a version button
SelectBaseVersionCall(version) ==
  /\ Len(planDiff.selecting) < MaxSelect
  /\ planDiff' = [planDiff EXCEPT
       !.isSelectingVersion = TRUE,
       !.fetchingVersion = Some(version),
       !.selecting = Append(@, version)]
  /\ UNCHANGED << reloc, share, slugger >>
  /\ UNCHANGED nonToolVars

\* selectBaseVersion(version) after the await: the response (res.ok or not,
\* or no connection) is handled, then the finally block runs
SelectBaseVersionResolve(i, ok) ==
  /\ i \in 1..Len(planDiff.selecting)
  /\ LET version == planDiff.selecting[i]
         done == [planDiff EXCEPT
                    !.isSelectingVersion = FALSE,
                    !.fetchingVersion = None,
                    !.selecting = SubSeq(@, 1, i - 1) \o SubSeq(@, i + 1, Len(@))]
     IN planDiff' = IF ok
                    THEN [done EXCEPT !.diffBasePlan = Some(VersionPlan(version)),
                                      !.diffBaseVersion = Some(version)]
                    ELSE done
  /\ UNCHANGED << reloc, share, slugger >>
  /\ UNCHANGED nonToolVars

\* fetchVersions() up to its await
FetchVersionsCall ==
  /\ planDiff.listing < MaxSelect
  /\ planDiff' = [planDiff EXCEPT !.isLoadingVersions = TRUE, !.listing = @ + 1]
  /\ UNCHANGED << reloc, share, slugger >>
  /\ UNCHANGED nonToolVars

\* fetchVersions() after the await
FetchVersionsResolve(ok, count) ==
  /\ planDiff.listing > 0
  /\ planDiff' = [planDiff EXCEPT
       !.isLoadingVersions = FALSE,
       !.listing = @ - 1,
       !.versions = IF ok THEN [v \in 1..count |-> v] ELSE @]
  /\ UNCHANGED << reloc, share, slugger >>
  /\ UNCHANGED nonToolVars

NextPlanDiff ==
  \/ \E prev \in { None, Some(VersionPlan(1)) }, version \in 1..2 :
       PropsArrive(prev, [version |-> version, totalVersions |-> version])
  \/ \E version \in 1..MaxVersion : SelectBaseVersionCall(version)
  \/ \E i \in 1..MaxSelect, ok \in BOOLEAN : SelectBaseVersionResolve(i, ok)
  \/ FetchVersionsCall
  \/ \E ok \in BOOLEAN : FetchVersionsResolve(ok, MaxVersion)

SpecPlanDiff == Init /\ [][NextPlanDiff]_vars

\* C21: isSelectingVersion is true exactly while a selectBaseVersion fetch is
\* in flight, and fetchingVersion is null when none is in flight and
\* otherwise a version that is being fetched, also when calls overlap.
C21_SelectingFlags ==
  /\ planDiff.isSelectingVersion <=> planDiff.selecting # << >>
  /\ planDiff.fetchingVersion = None <=> planDiff.selecting = << >>
  /\ planDiff.fetchingVersion # None =>
       \E i \in 1..Len(planDiff.selecting) :
         planDiff.selecting[i] = planDiff.fetchingVersion[1]

\* ------------------------------------------------------ position reconciler
\* bound: blocks of a parsed document
MaxBlocks == 2

\* bound: characters in a block's content and in a target text
MaxContent == 2

\* block contents and target texts: the non-empty texts over two characters
RECURSIVE TextsUpTo(_)
TextsUpTo(n) ==
  IF n = 0 THEN { << >> }
  ELSE LET shorter == TextsUpTo(n - 1)
       IN shorter \cup { Append(t, c) : t \in shorter, c \in { "a", "b" } }

Contents == TextsUpTo(MaxContent) \ { << >> }

\* parsed blocks in parse order; block k has id k
RECURSIVE BlockListsOf(_)
BlockListsOf(n) ==
  IF n = 0 THEN { << >> }
  ELSE LET shorter == BlockListsOf(n - 1)
       IN shorter \cup
          { Append(bs, [id |-> Len(bs) + 1, content |-> c]) : bs \in shorter, c \in Contents }

\* the annotations handed to relocate: with a target text, positionless or
\* with a position that no longer resolves
RelocInputs ==
  { [type |-> "comment", targetText |-> Some(t), note |-> Some(<< "n" >>), author |-> None,
     position |-> p, orphaned |-> FALSE] :
      t \in Contents,
      p \in { None, Some([blockId |-> 9, startOffset |-> 0, endOffset |-> 1]) } }

\* the offset of the first occurrence of target in content at or after
\* offset from, or -1
RECURSIVE indexOf(_, _, _)
indexOf(content, target, from) ==
  IF from + Len(target) > Len(content) THEN -1
  ELSE IF SubSeq(content, from + 1, from + Len(target)) = target THEN from
  ELSE indexOf(content, target, from + 1)

\* the scan of relocate from block k on
RECURSIVE relocateFrom(_, _, _)
relocateFrom(annotation, blocks, k) ==
  IF k > Len(blocks)
  THEN [annotation EXCEPT !.position = None, !.orphaned = TRUE]
  ELSE LET at == indexOf(blocks[k].content, annotation.targetText[1], 0)
       IN IF at >= 0
          THEN [annotation EXCEPT
                  !.position = Some([blockId |-> blocks[k].id, startOffset |-> at,
                                     endOffset |-> at + Len(annotation.targetText[1])]),
                  !.orphaned = FALSE]
          ELSE relocateFrom(annotation, blocks, k + 1)

relocate_FromSecond(annotation, blocks) == relocateFrom(annotation, blocks, 2)

relocate(annotation, blocks) == relocateFrom(annotation, blocks, 1)

Relocate ==
  /\ reloc.result = None
  /\ reloc' = [reloc EXCEPT !.result = Some(relocate(reloc.annotation, reloc.blocks))]
  /\ UNCHANGED << planDiff, share, slugger >>
  /\ UNCHANGED nonToolVars

InitRelocate ==
  /\ InitCommon /\ InitDiffIdle /\ InitPi /\ InitUi /\ active = { 1 }
  /\ planDiff = PlanDiffMounted(None, None)
  /\ share = ShareIdle(<< >>, << >>)
  /\ slugger = SluggerIdle(<< >>, FALSE)
  /\ \E blocks \in BlockListsOf(MaxBlocks), annotation \in RelocInputs :
       reloc = RelocIdle(blocks, annotation)

NextRelocate == Relocate

SpecRelocate == InitRelocate /\ [][NextRelocate]_vars

\* the blocks whose content contains the target text verbatim
MatchingBlocks(blocks, target) ==
  { k \in 1..Len(blocks) :
      \E at \in 0..Len(blocks[k].content) :
        /\ at + Len(target) <= Len(blocks[k].content)
        /\ SubSeq(blocks[k].content, at + 1, at + Len(target)) = target }

\* C22: the result of relocate has a position exactly when some block
\* contains targetText verbatim; the position then names the earliest such
\* block in parse order and offsets at which targetText stands in its
\* content; otherwise the position is absent and the annotation is flagged
\* orphaned; nothing else of the annotation changes.
C22_Relocate ==
  reloc.result # None =>
    LET r == reloc.result[1]
        target == reloc.annotation.targetText[1]
        matches == MatchingBlocks(reloc.blocks, target)
    IN /\ [r EXCEPT !.position = None, !.orphaned = FALSE]
            = [reloc.annotation EXCEPT !.position = None, !.orphaned = FALSE]
       /\ IF matches = { }
          THEN r.position = None /\ r.orphaned
          ELSE /\ r.position # None /\ ~r.orphaned
               /\ LET k == CHOOSE k \in matches : \A j \in matches : k <= j
                      p == r.position[1]
                  IN /\ p.blockId = reloc.blocks[k].id
                     /\ p.endOffset = p.startOffset + Len(target)
                     /\ SubSeq(reloc.blocks[k].content, p.startOffset + 1, p.endOffset) = target

\* both blocks contain the target text "b" and the earlier one won, at the
\* offset where "b" stands in "ab"
C22_Witness ==
  /\ reloc.blocks = << [id |-> 1, content |-> << "a", "b" >>],
                       [id |-> 2, content |-> << "b" >>] >>
  /\ reloc.annotation.targetText = Some(<< "b" >>)
  /\ reloc.result # None
  /\ reloc.result[1].position = Some([blockId |-> 1, startOffset |-> 1, endOffset |-> 2])

\* -------------------------------------------------------------- share codec
\* bound: annotations in a shared payload
MaxAnnotations == 2

\* the annotations a review can hold: a deletion may carry a note, the
\* other text annotations must, a global comment has a note and no target;
\* author and position are optional
ShareInputs ==
  { [type |-> "deletion", targetText |-> Some(<< "a" >>), note |-> n, author |-> u,
     position |-> p, orphaned |-> FALSE] :
      n \in { None, Some(<< "n" >>) }, u \in { None, Some(<< "u" >>) },
      p \in { None, Some([blockId |-> 1, startOffset |-> 0, endOffset |-> 1]) } }
  \cup
  { [type |-> ty, targetText |-> Some(<< "a" >>), note |-> Some(<< "n" >>), author |-> u,
     position |-> None, orphaned |-> FALSE] :
      ty \in { "insertion", "replacement", "comment" }, u \in { None, Some(<< "u" >>) } }
  \cup
  { [type |-> "global-comment", targetText |-> None, note |-> Some(<< "n" >>), author |-> u,
     position |-> None, orphaned |-> FALSE] : u \in { None, Some(<< "u" >>) } }

RECURSIVE AnnotationListsOf(_)
AnnotationListsOf(n) ==
  IF n = 0 THEN { << >> }
  ELSE LET shorter == AnnotationListsOf(n - 1)
       IN shorter \cup { Append(as, a) : as \in shorter, a \in ShareInputs }

\* the one-character type tag of each annotation variant
TypeTag(type) ==
  CASE type = "deletion" -> "D"
    [] type = "insertion" -> "I"
    [] type = "replacement" -> "R"
    [] type = "comment" -> "C"
    [] type = "global-comment" -> "G"

TagType(tag) ==
  CASE tag = "D" -> "deletion"
    [] tag = "I" -> "insertion"
    [] tag = "R" -> "replacement"
    [] tag = "C" -> "comment"
    [] tag = "G" -> "global-comment"

\* a text field of the serialized payload: its length, then its characters
Field(text) == << DigitChars[Len(text) + 1] >> \o text

\* the author of a compact annotation, if present
AuthorField(author) ==
  IF author = None THEN << "-" >> ELSE << "+" >> \o Field(author[1])

CompactAnnotation_NoAuthor(a) ==
  << TypeTag(a.type) >>
    \o (IF a.type = "global-comment" THEN << >> ELSE Field(a.targetText[1]))
    \o (IF a.type = "deletion" THEN << >> ELSE Field(a.note[1]))
    \o << "-" >>

\* encoding stage 1 and 2: the tagged tuple of an annotation, serialized:
\* the tag, the target text (not for a global comment), the note (not for a
\* deletion), the author if present; no position
CompactAnnotation(a) ==
  << TypeTag(a.type) >>
    \o (IF a.type = "global-comment" THEN << >> ELSE Field(a.targetText[1]))
    \o (IF a.type = "deletion" THEN << >> ELSE Field(a.note[1]))
    \o AuthorField(a.author)

RECURSIVE SerializeAnnotations(_)
SerializeAnnotations(annotations) ==
  IF annotations = << >> THEN << >>
  ELSE CompactAnnotation(Head(annotations)) \o SerializeAnnotations(Tail(annotations))

\* encode(document, annotations): the serialized payload; the compression and
\* the URL-safe alphabet of stages 3 and 4 are lossless and undone first by
\* decode, so the token is identified with the bytes they carry
encode(document, annotations) == Field(document) \o SerializeAnnotations(annotations)

\* reading one field: its text and what follows it
FieldText(s) == SubSeq(s, 2, DigitVal(s[1]) + 1)

AfterField(s) == SubSeq(s, DigitVal(s[1]) + 2, Len(s))

\* reading the annotations of a serialized payload, one tagged tuple at a time
RECURSIVE ParseAnnotations(_)
ParseAnnotations(s) ==
  IF s = << >> THEN << >>
  ELSE LET type == TagType(s[1])
           s1 == Tail(s)
           targetText == IF type = "global-comment" THEN None ELSE Some(FieldText(s1))
           s2 == IF type = "global-comment" THEN s1 ELSE AfterField(s1)
           note == IF type = "deletion" THEN None ELSE Some(FieldText(s2))
           s3 == IF type = "deletion" THEN s2 ELSE AfterField(s2)
           author == IF s3[1] = "+" THEN Some(FieldText(Tail(s3))) ELSE None
           s4 == IF s3[1] = "+" THEN AfterField(Tail(s3)) ELSE Tail(s3)
       IN << [type |-> type, targetText |-> targetText, note |-> note, author |-> author,
              position |-> None, orphaned |-> FALSE] >> \o ParseAnnotations(s4)

\* decode(token): the document and the positionless annotations
decode(token) ==
  [document |-> FieldText(token), annotations |-> ParseAnnotations(AfterField(token))]

Encode ==
  /\ share.token = None
  /\ share' = [share EXCEPT !.token = Some(encode(share.document, share.annotations))]
  /\ UNCHANGED << planDiff, reloc, slugger >>
  /\ UNCHANGED nonToolVars

Decode ==
  /\ share.token # None /\ share.decoded = None
  /\ share' = [share EXCEPT !.decoded = Some(decode(share.token[1]))]
  /\ UNCHANGED << planDiff, reloc, slugger >>
  /\ UNCHANGED nonToolVars

InitShare ==
  /\ InitCommon /\ InitDiffIdle /\ InitPi /\ InitUi /\ active = { 1 }
  /\ planDiff = PlanDiffMounted(None, None)
  /\ reloc = RelocIdle(<< >>, NoAnnotation)
  /\ slugger = SluggerIdle(<< >>, FALSE)
  /\ \E document \in TextsUpTo(MaxContent), annotations \in AnnotationListsOf(MaxAnnotations) :
       share = ShareIdle(document, annotations)

NextShare ==
  \/ Encode
  \/ Decode

SpecShare == InitShare /\ [][NextShare]_vars

\* the (type, targetText, note, author) tuples of an annotation list
Tuples(annotations) ==
  { << annotations[k].type, annotations[k].targetText, annotations[k].note,
       annotations[k].author >> : k \in 1..Len(annotations) }

\* the tuples of the compact projection: a deletion carries no note
CompactTuples(annotations) ==
  { << annotations[k].type, annotations[k].targetText,
       IF annotations[k].type = "deletion" THEN None ELSE annotations[k].note,
       annotations[k].author >> : k \in 1..Len(annotations) }

\* C23 as stated: decode(encode(document, annotations)) has the same
\* document text and the same set of (type, targetText, note, author)
\* tuples, whatever the positions were.
C23_RoundTrip ==
  share.decoded # None =>
    /\ share.decoded[1].document = share.document
    /\ Tuples(share.decoded[1].annotations) = Tuples(share.annotations)

\* C23 amended: decode(encode(document, annotations)) has the same document
\* text and the same set of compact tuples (type, targetText, note, author
\* with the note of a deletion left out), whatever the positions were, and
\* every decoded annotation is positionless.
C23_RoundTripCompact ==
  share.decoded # None =>
    /\ share.decoded[1].document = share.document
    /\ CompactTuples(share.decoded[1].annotations) = CompactTuples(share.annotations)
    /\ Tuples(share.decoded[1].annotations) = CompactTuples(share.annotations)
    /\ \A k \in 1..Len(share.decoded[1].annotations) :
         share.decoded[1].annotations[k].position = None

\* a payload with a positioned deletion that carries a note and an author,
\* and a global comment, has been encoded and decoded
C23_Witness ==
  /\ share.decoded # None
  /\ Len(share.annotations) = 2
  /\ share.annotations[1].type = "deletion"
  /\ share.annotations[1].note # None /\ share.annotations[1].position # None
  /\ share.annotations[1].author # None
  /\ share.annotations[2].type = "global-comment"
  /\ share.document # << >>

\* C24: a save is deduplicated against the current maximum version only: it
\* returns isNew = false exactly when the content equals that of the maximum
\* version; content identical to an older version only (A, then B, then A
\* again) is stored as a new version max + 1 and the older copy stays.
C24_DedupLatestOnly ==
  \A p \in Procs : Returned(p) =>
    LET pre == proc[p].pre.entries
        now == fs[proc[p].dir].entries
    IN /\ proc[p].ret.isNew <=>
            (VersionsIn(pre) = {} \/ DataAt(pre, MaxIn(pre)) # { proc[p].plan })
       /\ (/\ VersionsIn(pre) # {}
           /\ DataAt(pre, MaxIn(pre)) # { proc[p].plan }
           /\ \E v \in VersionsIn(pre) : DataAt(pre, v) = { proc[p].plan })
            => /\ proc[p].ret = [version |-> MaxIn(pre) + 1, isNew |-> TRUE]
               /\ DataAt(now, MaxIn(pre) + 1) = { proc[p].plan }
               /\ \A v \in VersionsIn(pre) : DataAt(now, v) = DataAt(pre, v)

\* A, B, A: the second A has been stored as version 3 next to version 1
C24_Witness ==
  \E p \in Procs :
    /\ Returned(p) /\ proc[p].ret = [version |-> 3, isNew |-> TRUE]
    /\ DataAt(fs[proc[p].dir].entries, 1) = { proc[p].plan }
    /\ DataAt(fs[proc[p].dir].entries, 3) = { proc[p].plan }
    /\ DataAt(fs[proc[p].dir].entries, 2) # { proc[p].plan }

\* C25: with a single writer no two adjacent versions of a directory hold
\* identical content: for every stored v >= 2, content(v) # content(v - 1).
C25_NoAdjacentDuplicate ==
  \A d \in DirKeys :
    \A v \in VersionsIn(fs[d].entries) :
      (v >= 2 /\ (v - 1) \in VersionsIn(fs[d].entries))
        => DataAt(fs[d].entries, v) # DataAt(fs[d].entries, v - 1)

\* a repeated identical submission was answered with the existing version 2
\* and the directory still holds two versions
C25_Witness ==
  \E p \in Procs :
    /\ Returned(p) /\ proc[p].ret = [version |-> 2, isNew |-> FALSE]
    /\ VersionsIn(fs[proc[p].dir].entries) = { 1, 2 }

\* the write step of a saveToHistory call of process p
WriteStep(p) == proc[p].pc = "write" /\ proc'[p].pc = "returned"

\* C26 as stated: also with two interleaving writers, a call that returns
\* isNew = true was given a version number no other call was given, and a
\* write never replaces the content an earlier call stored.
C26_NoLostUpdate ==
  /\ [](\A p \in Procs : (Returned(p) /\ proc[p].ret.isNew) =>
          /\ \A q \in Procs \ { p } :
               (Returned(q) /\ proc[q].ret.isNew /\ proc[q].dir = proc[p].dir)
                 => proc[q].ret.version # proc[p].ret.version
          /\ (lastSave # None /\ lastSave[1].ret.isNew /\ lastSave[1].dir = proc[p].dir)
               => lastSave[1].ret.version # proc[p].ret.version)
  /\ [][\A p \in Procs : WriteStep(p) =>
          proc[p].nextVersion \notin VersionsIn(fs[proc[p].dir].entries)]_vars

\* C26 amended: a write replaces an already stored version, giving its call
\* a number another call was given, only when another writer changed the
\* directory between the start of the call and its write; every other
\* stored version keeps its content.
C26_LostUpdateOnlyByRace ==
  [][\A p \in Procs : WriteStep(p) =>
       /\ proc[p].nextVersion \in VersionsIn(fs[proc[p].dir].entries)
            => fs[proc[p].dir].entries # proc[p].pre.entries
       /\ \A d \in DirKeys : \A e \in fs[d].entries :
            (d # proc[p].dir \/ e.name # VersionFileName(proc[p].nextVersion))
              => e \in fs'[d].entries]_vars

\* two writers were both given version 1 of the same directory for
\* different contents: the first content is lost
C26_Witness ==
  \E p \in Procs :
    /\ Returned(p) /\ proc[p].ret = [version |-> 1, isNew |-> TRUE]
    /\ lastSave # None /\ lastSave[1].ret = [version |-> 1, isNew |-> TRUE]
    /\ lastSave[1].dir = proc[p].dir /\ lastSave[1].plan # proc[p].plan
    /\ DataAt(fs[proc[p].dir].entries, 1) = { proc[p].plan }

\* C27: with a single writer, once the review server listens, previousPlan
\* is null exactly when saveToHistory returned version 1; otherwise it is
\* the stored content of version - 1 and differs from the submitted plan,
\* also when the submission was deduplicated (isNew = false).
C27_PreviousPlan ==
  \A p \in Procs : Serving(p) =>
    LET version == proc[p].ret.version
        es == fs[proc[p].dir].entries
    IN /\ proc[p].previousPlan = None <=> version = 1
       /\ version > 1 =>
            /\ DataAt(es, version - 1) = { proc[p].previousPlan[1] }
            /\ proc[p].previousPlan # Some(proc[p].plan)

\* a deduplicated submission (version 2 again, isNew = false) is served with
\* the content of version 1 as previousPlan
C27_Witness ==
  \E p \in Procs :
    /\ Serving(p) /\ proc[p].ret = [version |-> 2, isNew |-> FALSE]
    /\ proc[p].previousPlan # None
    /\ DataAt(fs[proc[p].dir].entries, 1) = { proc[p].previousPlan[1] }

\* the text a block contributes to the new plan and to the old plan
NewPart(block) ==
  IF block.type \in { "unchanged", "added", "modified" } THEN block.content ELSE << >>

OldPart(block) ==
  IF block.type = "modified" THEN block.oldContent[1]
  ELSE IF block.type \in { "unchanged", "removed" } THEN block.content
  ELSE << >>

RECURSIVE NewSide(_)
NewSide(blocks) ==
  IF blocks = << >> THEN << >> ELSE NewPart(Head(blocks)) \o NewSide(Tail(blocks))

RECURSIVE OldSide(_)
OldSide(blocks) ==
  IF blocks = << >> THEN << >> ELSE OldPart(Head(blocks)) \o OldSide(Tail(blocks))

\* C28: the blocks of computePlanDiff(oldText, newText) reconstruct both
\* inputs: the content of the unchanged, added and modified blocks, in block
\* order, concatenates to newText, and the content of the unchanged and
\* removed blocks with the oldContent of the modified blocks concatenates to
\* oldText.
C28_Reconstruct ==
  diff.done =>
    /\ NewSide(diff.blocks) = newText
    /\ OldSide(diff.blocks) = oldText

\* a diff with a modified block between different, non-empty plans
C28_Witness ==
  /\ diff.done
  /\ oldText # newText /\ oldText # << >> /\ newText # << >>
  /\ \E k \in 1..Len(diff.blocks) :
       /\ diff.blocks[k].type = "modified"
       /\ diff.blocks[k].content # diff.blocks[k].oldContent[1]
  /\ \E k \in 1..Len(diff.blocks) : diff.blocks[k].type = "unchanged"
  /\ NewSide(diff.blocks) = newText
  /\ OldSide(diff.blocks) = oldText

\* ------------------------------------------------- naming of the history
MaxPieces == 3

\* a heading that sanitizes to fifteen characters, so that two fill a tag
\* and three overflow it
LongPiece ==
  << "A", "b", "c", "d", "e", " ", " ", "l", "m", "n", "p", "x", "y", "1", "-", "_", "d" >>

NamePieces == { << "a" >>, << "B" >>, << "-" >>, << " " >>, << "_" >>, << "!" >>, LongPiece }

RECURSIVE NamesOf(_)
NamesOf(n) ==
  IF n = 0 THEN { << >> }
  ELSE NamesOf(n - 1) \cup { s \o piece : s \in NamesOf(n - 1), piece \in NamePieces }

\* the plan whose first heading is the name, or a plan without any heading
PlanNamed(name, headed) ==
  IF headed THEN << "#", " " >> \o name \o << "\n", "x" >> ELSE name \o << "\n", "x" >>

SanitizeTagCall ==
  /\ slugger.pc = "idle"
  /\ slugger' = [slugger EXCEPT !.pc = "sanitized", !.tag = sanitizeTag(slugger.name)]
  /\ UNCHANGED << planDiff, reloc, share >>
  /\ UNCHANGED nonToolVars

GenerateSlugCall ==
  /\ slugger.pc = "idle"
  /\ slugger' = [slugger EXCEPT !.pc = "slugged", !.day = today,
                   !.slug = generateSlug(PlanNamed(slugger.name, slugger.headed), today)]
  /\ UNCHANGED << planDiff, reloc, share >>
  /\ UNCHANGED nonToolVars

InitSlug ==
  /\ InitCommon /\ InitDiffIdle /\ InitPi /\ InitUi /\ active = { 1 }
  /\ planDiff = PlanDiffMounted(None, None)
  /\ reloc = RelocIdle(<< >>, NoAnnotation)
  /\ share = ShareIdle(<< >>, << >>)
  /\ \E name \in NamesOf(MaxPieces), headed \in BOOLEAN : slugger = SluggerIdle(name, headed)

NextSlug ==
  \/ SanitizeTagCall
  \/ GenerateSlugCall
  \/ DayPasses

SpecSlug == InitSlug /\ [][NextSlug]_vars

\* 2 to 30 lowercase letters, digits and hyphens, no two hyphens in a row
TagShaped(s) ==
  /\ Len(s) >= 2 /\ Len(s) <= 30
  /\ \A i \in 1..Len(s) : s[i] \in LowerLetters \cup Digits \cup { "-" }
  /\ \A i \in 1..(Len(s) - 1) : ~(s[i] = "-" /\ s[i + 1] = "-")

PlanWord == << "p", "l", "a", "n" >>

\* C29: sanitizeTag gives null or a string of 2 to 30 lowercase
\* alphanumerics and hyphens without two consecutive hyphens; generateSlug
\* gives the sanitized first heading followed by "-" and the date when that
\* tag is not null, and "plan-" and the date otherwise (no heading, or a
\* heading that sanitizes to null), so a slug is never empty.
C29_SanitizedSlug ==
  /\ slugger.pc = "sanitized" => (slugger.tag = None \/ TagShaped(slugger.tag[1]))
  /\ slugger.pc = "slugged" =>
       LET date == << "-" >> \o IsoDate(slugger.day)
           tag == sanitizeTag(slugger.name)
       IN /\ slugger.slug # << >>
          /\ \E x \in { PlanWord } \cup { t[1] : t \in { tag } \ { None } } :
               slugger.slug = x \o date
          /\ (slugger.headed /\ trim(slugger.name) # << >>) =>
               slugger.slug = (IF tag # None THEN tag[1] ELSE PlanWord) \o date
          /\ ~slugger.headed => slugger.slug = PlanWord \o date
          /\ SubSeq(slugger.slug, 1, Len(slugger.slug) - Len(date)) # PlanWord
               => TagShaped(SubSeq(slugger.slug, 1, Len(slugger.slug) - Len(date)))

\* a name longer than 30 characters with repeated separators was cut to a
\* 30-character tag
C29_Witness ==
  /\ slugger.pc = "sanitized"
  /\ Len(slugger.name) > 30
  /\ \E i \in 1..(Len(slugger.name) - 1) :
       slugger.name[i] \in { "-", " ", "_" } /\ slugger.name[i + 1] \in { "-", " ", "_" }
  /\ slugger.tag # None /\ Len(slugger.tag[1]) = 30

\* a heading that sanitizes to null was given the fallback slug
C29_WitnessFallback ==
  /\ slugger.pc = "slugged" /\ slugger.headed
  /\ trim(slugger.name) # << >>
  /\ sanitizeTag(slugger.name) = None
  /\ slugger.slug = PlanWord \o << "-" >> \o IsoDate(slugger.day)

====
